---- MODULE Spec2Model ----
(***************************************************************************)
(* Verification model of the GDL 90 codec of fyjet/palas (package gdl90py) *)
(* and of its callers.  Byte strings are sequences over 0..255, a BitArray *)
(* is a sequence over {0,1} (most significant bit first), and a Python     *)
(* exception is an outcome record [exc |-> <class name>, val |-> <<>>].    *)
(***************************************************************************)
EXTENDS Integers, Sequences, FiniteSets, TLC

VARIABLES pc, message_ids, body, outgoing_lsb, crc_out, data, tamper, result,
          rec, frames, ignore_unknown, decoder, server

vars == <<pc, message_ids, body, outgoing_lsb, crc_out, data, tamper, result,
          rec, frames, ignore_unknown, decoder, server>>

(***************************************************************************)
(* Bounds of the model                                                     *)
(***************************************************************************)
MaxBodyLen == 2

\* frames in a stream handed to parse_messages
MaxFrames == 2

\* bytes the framing inputs are drawn from: the flag and escape bytes, their
\* escaped forms, the bit-reversed escape byte (0xBE), and plain bytes
SampleBytes == {0, 1, 93, 94, 125, 126, 190}

(***************************************************************************)
(* Integers as bit patterns                                                *)
(***************************************************************************)
Pow2(n) == 2^n

Raised(outcome) == outcome.exc # "none"
Returned(outcome) == outcome.exc = "none"
Raise(name) == [exc |-> name, val |-> <<>>]
Return(v) == [exc |-> "none", val |-> v]

\* Python slices data[lo:] and data[:hi] (0-based, hi exclusive), clipped
SliceFrom(s, lo) ==
    IF lo >= Len(s) THEN <<>> ELSE SubSeq(s, (IF lo < 0 THEN 0 ELSE lo) + 1, Len(s))
SliceTo(s, hi) ==
    IF hi <= 0 THEN <<>> ELSE SubSeq(s, 1, IF hi > Len(s) THEN Len(s) ELSE hi)

(***************************************************************************)
(* gdl90py/utils/bitarray.py                                               *)
(***************************************************************************)
\* BitArray(uint=value, length=bits)
BitArrayUint(value, bits) == [k \in 1..bits |-> (value \div Pow2(bits - k)) % 2]

\* BitArray.uint: the bits between positions lo and hi, as a number
RECURSIVE uint_range(_, _, _)
uint_range(bitarray, lo, hi) ==
    IF lo > hi THEN 0
    ELSE IF lo = hi THEN bitarray[lo]
    ELSE LET mid == (lo + hi) \div 2
         IN  (uint_range(bitarray, lo, mid) * Pow2(hi - mid)) + uint_range(bitarray, mid + 1, hi)

uint(bitarray) == uint_range(bitarray, 1, Len(bitarray))

\* bit k of a ^ b, in place
XorBit(a, b, k) == ((((a \div Pow2(k)) % 2) + ((b \div Pow2(k)) % 2)) % 2) * Pow2(k)

\* a ^ b on integers below 2^17
BitXor(a, b) ==
    IF a = 0 THEN b
    ELSE IF b = 0 THEN a
    ELSE XorBit(a, b, 0) +
         XorBit(a, b, 1) +
         XorBit(a, b, 2) +
         XorBit(a, b, 3) +
         XorBit(a, b, 4) +
         XorBit(a, b, 5) +
         XorBit(a, b, 6) +
         XorBit(a, b, 7) +
         XorBit(a, b, 8) +
         XorBit(a, b, 9) +
         XorBit(a, b, 10) +
         XorBit(a, b, 11) +
         XorBit(a, b, 12) +
         XorBit(a, b, 13) +
         XorBit(a, b, 14) +
         XorBit(a, b, 15) +
         XorBit(a, b, 16)

\* BitArray(bytes)
BitArrayBytes(bytes_) ==
    [i \in 1..(8 * Len(bytes_)) |->
        (bytes_[((i - 1) \div 8) + 1] \div Pow2(7 - ((i - 1) % 8))) % 2]

\* BitArray.tobytes(): packs eight bits per byte, zero-padding the last byte
tobytes(bitarray) ==
    [k \in 1..((Len(bitarray) + 7) \div 8) |->
        uint([j \in 1..8 |-> IF 8 * (k - 1) + j <= Len(bitarray)
                             THEN bitarray[8 * (k - 1) + j] ELSE 0])]

\* byte[::-1]
Reversed(bitarray) == [i \in 1..Len(bitarray) |-> bitarray[Len(bitarray) + 1 - i]]

\* lsb: flips the order of the bits in each byte (cut(8) yields whole bytes)
lsb(bitarray) ==
    [i \in 1..Len(bitarray) |->
        LET first == 8 * ((i - 1) \div 8)
            last == IF first + 8 <= Len(bitarray) THEN first + 8 ELSE Len(bitarray)
        IN  bitarray[first + last + 1 - i]]

lsb_bytes(bytes_) == tobytes(lsb(BitArrayBytes(bytes_)))

(***************************************************************************)
(* gdl90py/utils/gdl90.py                                                  *)
(***************************************************************************)
FLAG_BYTE == 126
CONTROL_ESCAPE_BYTE == 125
ESCAPE_XOR_BYTE == 32
MASK_16_BIT == 65535
FOREFLIGHT_MESSAGE_ID == 101

\* the inner loop of crc_table: n shifts of the 16-bit register
RECURSIVE crc_shift(_, _)
crc_shift(crc, n) ==
    IF n = 0 THEN crc
    ELSE crc_shift(BitXor((crc * 2) % (MASK_16_BIT + 1),
                          IF crc >= 32768 THEN 4129 ELSE 0), n - 1)

crc_table == [i \in 0..255 |-> crc_shift((i * 256) % (MASK_16_BIT + 1), 8)]

\* one iteration of the loop of compute_crc
crc_step_ccitt(crc, c) ==
    BitXor(crc_table[BitXor(crc \div 256, c)], (crc * 256) % (MASK_16_BIT + 1))

crc_step(crc, c) ==
    BitXor(BitXor(crc_table[crc \div 256], (crc * 256) % (MASK_16_BIT + 1)), c)

\* the loop of compute_crc over bytes_[lo..hi], entered with the value crc
RECURSIVE crc_loop(_, _, _, _)
crc_loop(bytes_, lo, hi, crc) ==
    IF lo > hi THEN crc
    ELSE IF lo = hi THEN crc_step(crc, bytes_[lo])
    ELSE LET mid == (lo + hi) \div 2
         IN  CHOOSE r \in {crc_loop(bytes_, mid + 1, hi, left) :
                               left \in {crc_loop(bytes_, lo, mid, crc)}} : TRUE

\* crc.to_bytes(length=2, byteorder="little")
compute_crc(bytes_) ==
    LET crc == crc_loop(bytes_, 1, Len(bytes_), 0) IN <<crc % 256, crc \div 256>>

\* check_crc: TRUE when it returns, FALSE when it raises InvalidCRC
check_crc(bytes_, crc) == compute_crc(bytes_) = crc

\* the loop of escape over bytes_[lo..hi]; to_escape is bytes_to_escape
RECURSIVE escape_loop(_, _, _, _)
escape_loop(bytes_, lo, hi, to_escape) ==
    IF lo > hi THEN <<>>
    ELSE IF lo = hi
         THEN IF bytes_[lo] \in to_escape
              THEN <<CONTROL_ESCAPE_BYTE, BitXor(bytes_[lo], ESCAPE_XOR_BYTE)>>
              ELSE <<bytes_[lo]>>
    ELSE LET mid == (lo + hi) \div 2
         IN  escape_loop(bytes_, lo, mid, to_escape) \o escape_loop(bytes_, mid + 1, hi, to_escape)

escape_flag_only(bytes_) == escape_loop(bytes_, 1, Len(bytes_), {FLAG_BYTE})

escape(bytes_) == escape_loop(bytes_, 1, Len(bytes_), {FLAG_BYTE, CONTROL_ESCAPE_BYTE})

\* data.index(byte, start): 0-based index of the first occurrence at or after
\* start, or -1 when there is none (Python raises ValueError)
index(bytes_, byte, start) ==
    LET hits == {k \in start..(Len(bytes_) - 1) : bytes_[k + 1] = byte}
    IN  IF hits = {} THEN -1 ELSE CHOOSE k \in hits : \A j \in hits : k <= j

\* unescape: the while loop, with the IndexError of data[escape_index + 1]
RECURSIVE unescape_loop(_, _)
unescape_loop(bytes_, escaped_data) ==
    LET escape_index == index(bytes_, CONTROL_ESCAPE_BYTE, 0) IN
    IF escape_index = -1 THEN Return(escaped_data \o bytes_)
    ELSE IF escape_index + 1 >= Len(bytes_) THEN Raise("IndexError")
    ELSE unescape_loop(SliceFrom(bytes_, escape_index + 2),
                       (escaped_data \o SliceTo(bytes_, escape_index))
                           \o <<BitXor(bytes_[escape_index + 2], ESCAPE_XOR_BYTE)>>)

unescape(bytes_) == unescape_loop(bytes_, <<>>)

\* the bytes build() escapes: ID bytes, body bytes, CRC
message_id_data_crc(ids, bitarray) ==
    LET message_id_data == ids \o tobytes(bitarray)
    IN  message_id_data \o compute_crc(message_id_data)

\* build with the CRC appended after escaping instead of before
build_crc_unescaped(ids, bitarray, lsb_first) ==
    LET message_id_data == ids \o tobytes(bitarray)
        framed == <<FLAG_BYTE>> \o escape(message_id_data)
                      \o compute_crc(message_id_data) \o <<FLAG_BYTE>>
    IN  IF lsb_first THEN lsb_bytes(framed) ELSE framed

build(ids, bitarray, lsb_first) ==
    LET framed == <<FLAG_BYTE>> \o escape(message_id_data_crc(ids, bitarray)) \o <<FLAG_BYTE>>
    IN  IF lsb_first THEN lsb_bytes(framed) ELSE framed

\* deconstruct after the flag test
deconstruct_body(bytes_, incoming_msb) ==
    LET without_flags == SliceTo(SliceFrom(bytes_, 1), Len(bytes_) - 2)
        flipped == IF ~incoming_msb THEN lsb_bytes(without_flags) ELSE without_flags
        unescaped == unescape(flipped)
        um == unescaped.val
        received_crc == SliceFrom(um, Len(um) - 2)
        message_id_data == SliceTo(um, Len(um) - 2)
    IN  IF Raised(unescaped) THEN unescaped
        ELSE IF ~check_crc(message_id_data, received_crc)
             THEN Raise("InvalidCRC")
        ELSE IF Len(message_id_data) = 0 THEN Raise("IndexError")
        ELSE IF message_id_data[1] = FOREFLIGHT_MESSAGE_ID
             THEN IF Len(message_id_data) < 2 THEN Raise("IndexError")
                  ELSE Return(<<SubSeq(message_id_data, 1, 2),
                                BitArrayBytes(SliceFrom(message_id_data, 2))>>)
        ELSE Return(<<SubSeq(message_id_data, 1, 1),
                      BitArrayBytes(SliceFrom(message_id_data, 1))>>)

\* the flag test of deconstruct: TRUE when MissingFlagBytes is raised
missing_flag_bytes(bytes_) ==
    bytes_[1] # FLAG_BYTE /\ bytes_[Len(bytes_)] # FLAG_BYTE

deconstruct(bytes_, incoming_msb) ==
    IF Len(bytes_) = 0 THEN Raise("IndexError")
    ELSE IF missing_flag_bytes(bytes_) THEN Raise("MissingFlagBytes")
    ELSE deconstruct_body(bytes_, incoming_msb)

(***************************************************************************)
(* gdl90py/messages/_base_message.py: the field codec                      *)
(***************************************************************************)
\* pop_bits(data, bits) called when `offset` bits have already been popped:
\* the slice data[:bits] is clipped to what remains
pop_bits(bitarray, offset, bits) == SliceTo(SliceFrom(bitarray, offset), bits)

\* a + b + ... over field outcomes: the first exception raised wins
RECURSIVE Concat(_)
Concat(parts) ==
    IF Len(parts) = 0 THEN Return(<<>>)
    ELSE IF Raised(parts[1]) THEN parts[1]
    ELSE LET rest == Concat(Tail(parts))
         IN  IF Raised(rest) THEN rest ELSE Return(parts[1].val \o rest.val)

\* the first exception among outcomes evaluated in order, if any
RECURSIVE FirstRaised(_)
FirstRaised(parts) ==
    IF Len(parts) = 0 THEN Return(<<>>)
    ELSE IF Raised(parts[1]) THEN parts[1]
    ELSE FirstRaised(Tail(parts))

\* int(x) of the quotient a / b, b > 0: truncation toward zero
TruncDiv(a, b) == IF a >= 0 THEN a \div b ELSE -((-a) \div b)

Min(a, b) == IF a < b THEN a ELSE b
Max(a, b) == IF a > b THEN a ELSE b

\* _serialize_uint that clamps whatever constrain says
_serialize_uint_always_constrained(value, bits, constrain) ==
    IF value < 0 THEN Raise("UnexpectedNegative")
    ELSE Return(BitArrayUint(Min(value, Pow2(bits) - 1), bits))

_serialize_uint(value, bits, constrain) ==
    IF value < 0 THEN Raise("UnexpectedNegative")
    ELSE IF constrain THEN Return(BitArrayUint(Min(value, Pow2(bits) - 1), bits))
    ELSE IF value > Pow2(bits) - 1 THEN Raise("BadIntegerSize")
    ELSE Return(BitArrayUint(value, bits))

\* bitarray.uint: bitstring refuses to interpret an empty bitstring
_deserialize_uint(bitarray) ==
    IF Len(bitarray) = 0 THEN Raise("InterpretError") ELSE Return(uint(bitarray))

\* BitArray(int=value, length=bits): two's complement
BitArrayInt(value, bits) == BitArrayUint(value % Pow2(bits), bits)

_serialize_int(value, bits, constrain) ==
    IF constrain
    THEN Return(BitArrayInt(Max(Min(value, Pow2(bits - 1) - 1), 0 - Pow2(bits - 1)), bits))
    ELSE IF value > Pow2(bits - 1) - 1 THEN Raise("BadIntegerSize")
    ELSE IF value < 0 - Pow2(bits - 1) THEN Raise("BadIntegerSize")
    ELSE Return(BitArrayInt(value, bits))

\* bitarray.int
_deserialize_int(bitarray) ==
    IF Len(bitarray) = 0 THEN Raise("InterpretError")
    ELSE Return(IF bitarray[1] = 1 THEN uint(bitarray) - Pow2(Len(bitarray))
                ELSE uint(bitarray))

_serialize_bool(value) == _serialize_uint(IF value THEN 1 ELSE 0, 1, TRUE)

\* bitarray.bool: defined for a bitstring of exactly one bit
_deserialize_bool(bitarray) ==
    IF Len(bitarray) # 1 THEN Raise("InterpretError") ELSE Return(bitarray[1] = 1)

_serialize_enum(value, length) == _serialize_uint(value, length, TRUE)

\* enum(uint): ValueError when the number is not a member
_deserialize_enum(bitarray, members) ==
    LET n == _deserialize_uint(bitarray)
    IN  IF Raised(n) THEN n
        ELSE IF n.val \notin members THEN Raise("ValueError")
        ELSE n

\* _clean_data that returns the body whatever the frame's IDs are
_clean_data_without_id_test(MESSAGE_IDS, bytes_, incoming_msb) ==
    LET d == deconstruct(bytes_, incoming_msb)
    IN  IF Raised(d) THEN d ELSE Return(d.val[2])

\* _clean_data for a framed byte string: deconstruct, then the ID test
_clean_data(MESSAGE_IDS, bytes_, incoming_msb) ==
    LET d == deconstruct(bytes_, incoming_msb)
    IN  IF Raised(d) THEN d
        ELSE IF d.val[1] # MESSAGE_IDS THEN Raise("InvalidMessageID")
        ELSE Return(d.val[2])

(***************************************************************************)
(* gdl90py/messages/heartbeat.py                                           *)
(***************************************************************************)
SECONDS_PER_MINUTE == 60
MINUTES_PER_HOUR == 60
SECONDS_PER_HOUR == SECONDS_PER_MINUTE * MINUTES_PER_HOUR

HeartbeatMessage_MESSAGE_IDS == <<0>>
TIMESTAMP_BITS_1 == 1
TIMESTAMP_BITS_2 == 8
TIMESTAMP_BITS_3 == 8
TIMESTAMP_BITS == TIMESTAMP_BITS_1 + TIMESTAMP_BITS_2 + TIMESTAMP_BITS_3
UPLINK_MESSAGES_COUNT_BITS == 5
BASIC_LONG_MESSAGES_COUNT_BITS == 10
HB_RESERVED_1_BITS == 1
HB_RESERVED_2_BITS == 4
HB_RESERVED_3_BITS == 1

\* datetime.time(hour, minute, second, tzinfo=datetime.UTC)
Time(hour, minute, second) ==
    [hour |-> hour, minute |-> minute, second |-> second, tzinfo |-> "UTC"]

\* the hour weighted by SECONDS_PER_MINUTE instead of SECONDS_PER_HOUR
_serialize_timestamp_hour_as_minute(self) ==
    _serialize_uint((self.timestamp.hour * SECONDS_PER_MINUTE)
                        + (self.timestamp.minute * SECONDS_PER_MINUTE)
                        + self.timestamp.second,
                    TIMESTAMP_BITS, TRUE)

_serialize_timestamp(self) ==
    _serialize_uint((self.timestamp.hour * SECONDS_PER_HOUR)
                        + (self.timestamp.minute * SECONDS_PER_MINUTE)
                        + self.timestamp.second,
                    TIMESTAMP_BITS, TRUE)

\* divmod twice, then datetime.time, which rejects an hour above 23
_deserialize_timestamp(timestamp_bitarray) ==
    LET total_seconds == _deserialize_uint(timestamp_bitarray)
        hours == total_seconds.val \div SECONDS_PER_HOUR
        remainder_seconds == total_seconds.val % SECONDS_PER_HOUR
        minutes == remainder_seconds \div SECONDS_PER_MINUTE
        seconds == remainder_seconds % SECONDS_PER_MINUTE
    IN  IF Raised(total_seconds) THEN total_seconds
        ELSE IF hours > 23 THEN Raise("ValueError")
        ELSE Return(Time(hours, minutes, seconds))

\* HeartbeatMessage.serialize with the two timestamp bytes in their natural
\* order: bits 8..15 before the low byte
HeartbeatMessage_all_data_timestamp_in_order(self) ==
    LET timestamp_bitarray == _serialize_timestamp(self)
        ts == timestamp_bitarray.val
    IN  IF Raised(timestamp_bitarray) THEN timestamp_bitarray
        ELSE Concat(<<
            _serialize_bool(self.gps_position_valid),
            _serialize_bool(self.maintenance_required),
            _serialize_bool(self.ident_talkback),
            _serialize_bool(self.self_assigned_address_talkback),
            _serialize_bool(self.gps_battery_low),
            _serialize_bool(self.RATCS_talkback),
            Return(BitArrayUint(0, HB_RESERVED_1_BITS)),
            _serialize_bool(self.UAT_initialized),
            Return(SliceTo(ts, TIMESTAMP_BITS_1)),
            _serialize_bool(self.CSA_requested),
            _serialize_bool(self.CSA_unavailable),
            Return(BitArrayUint(0, HB_RESERVED_2_BITS)),
            _serialize_bool(self.UTC_timing_valid),
            Return(SliceTo(SliceFrom(ts, TIMESTAMP_BITS_1), TIMESTAMP_BITS_2)),
            Return(SliceFrom(ts, TIMESTAMP_BITS_1 + TIMESTAMP_BITS_2)),
            _serialize_uint(self.uplink_messages_count, UPLINK_MESSAGES_COUNT_BITS, TRUE),
            Return(BitArrayUint(0, HB_RESERVED_3_BITS)),
            _serialize_uint(self.basic_long_messages_count, BASIC_LONG_MESSAGES_COUNT_BITS, TRUE) >>)

\* the body bits of HeartbeatMessage.serialize, before build
HeartbeatMessage_all_data(self) ==
    LET timestamp_bitarray == _serialize_timestamp(self)
        ts == timestamp_bitarray.val
    IN  IF Raised(timestamp_bitarray) THEN timestamp_bitarray
        ELSE Concat(<<
            _serialize_bool(self.gps_position_valid),
            _serialize_bool(self.maintenance_required),
            _serialize_bool(self.ident_talkback),
            _serialize_bool(self.self_assigned_address_talkback),
            _serialize_bool(self.gps_battery_low),
            _serialize_bool(self.RATCS_talkback),
            Return(BitArrayUint(0, HB_RESERVED_1_BITS)),
            _serialize_bool(self.UAT_initialized),
            Return(SliceTo(ts, TIMESTAMP_BITS_1)),
            _serialize_bool(self.CSA_requested),
            _serialize_bool(self.CSA_unavailable),
            Return(BitArrayUint(0, HB_RESERVED_2_BITS)),
            _serialize_bool(self.UTC_timing_valid),
            Return(SliceFrom(ts, TIMESTAMP_BITS_1 + TIMESTAMP_BITS_2)),
            Return(SliceTo(SliceFrom(ts, TIMESTAMP_BITS_1), TIMESTAMP_BITS_2)),
            _serialize_uint(self.uplink_messages_count, UPLINK_MESSAGES_COUNT_BITS, TRUE),
            Return(BitArrayUint(0, HB_RESERVED_3_BITS)),
            _serialize_uint(self.basic_long_messages_count, BASIC_LONG_MESSAGES_COUNT_BITS, TRUE) >>)

\* HeartbeatMessage.deserialize after _clean_data
HeartbeatMessage_deserialize(bits) ==
    LET gps_position_valid == _deserialize_bool(pop_bits(bits, 0, 1))
        maintenance_required == _deserialize_bool(pop_bits(bits, 1, 1))
        ident_talkback == _deserialize_bool(pop_bits(bits, 2, 1))
        self_assigned_address_talkback == _deserialize_bool(pop_bits(bits, 3, 1))
        gps_battery_low == _deserialize_bool(pop_bits(bits, 4, 1))
        RATCS_talkback == _deserialize_bool(pop_bits(bits, 5, 1))
        UAT_initialized == _deserialize_bool(pop_bits(bits, 6 + HB_RESERVED_1_BITS, 1))
        timestamp_bits_1 == pop_bits(bits, 8, TIMESTAMP_BITS_1)
        CSA_requested == _deserialize_bool(pop_bits(bits, 9, 1))
        CSA_unavailable == _deserialize_bool(pop_bits(bits, 10, 1))
        UTC_timing_valid == _deserialize_bool(pop_bits(bits, 11 + HB_RESERVED_2_BITS, 1))
        timestamp_bits_2 == pop_bits(bits, 16, TIMESTAMP_BITS_2)
        timestamp_bits_3 == pop_bits(bits, 24, TIMESTAMP_BITS_3)
        timestamp == _deserialize_timestamp(timestamp_bits_1 \o timestamp_bits_3 \o timestamp_bits_2)
        uplink_messages_count == _deserialize_uint(pop_bits(bits, 32, UPLINK_MESSAGES_COUNT_BITS))
        basic_long_messages_count ==
            _deserialize_uint(pop_bits(bits, 37 + HB_RESERVED_3_BITS, BASIC_LONG_MESSAGES_COUNT_BITS))
        failed == FirstRaised(<<gps_position_valid, maintenance_required, ident_talkback,
                                self_assigned_address_talkback, gps_battery_low, RATCS_talkback,
                                UAT_initialized, CSA_requested, CSA_unavailable, UTC_timing_valid,
                                timestamp, uplink_messages_count, basic_long_messages_count>>)
    IN  IF Raised(failed) THEN failed
        ELSE IF Len(SliceFrom(bits, 48)) # 0 THEN Raise("DataTooLong")
        ELSE Return([type |-> "HeartbeatMessage",
                     gps_position_valid |-> gps_position_valid.val,
                     maintenance_required |-> maintenance_required.val,
                     ident_talkback |-> ident_talkback.val,
                     self_assigned_address_talkback |-> self_assigned_address_talkback.val,
                     gps_battery_low |-> gps_battery_low.val,
                     RATCS_talkback |-> RATCS_talkback.val,
                     UAT_initialized |-> UAT_initialized.val,
                     CSA_requested |-> CSA_requested.val,
                     CSA_unavailable |-> CSA_unavailable.val,
                     UTC_timing_valid |-> UTC_timing_valid.val,
                     timestamp |-> timestamp.val,
                     uplink_messages_count |-> uplink_messages_count.val,
                     basic_long_messages_count |-> basic_long_messages_count.val])

(***************************************************************************)
(* Scaled fields.  A resolution is the rational num/den, in the unit the   *)
(* field's value is expressed in; int(value / resolution) and              *)
(* int(raw * resolution) are exact for the binary fractions used here.     *)
(***************************************************************************)
Resolution(num, den) == [num |-> num, den |-> den]

_serialize_resolution_uint(value, resolution, bits) ==
    _serialize_uint(TruncDiv(value * resolution.den, resolution.num), bits, TRUE)

_deserialize_resolution_uint(bitarray, resolution) ==
    LET raw == _deserialize_uint(bitarray)
    IN  IF Raised(raw) THEN raw
        ELSE Return(TruncDiv(raw.val * resolution.num, resolution.den))

_serialize_resolution_int(value, resolution, bits) ==
    _serialize_int(TruncDiv(value * resolution.den, resolution.num), bits, TRUE)

_serialize_resolution_float(value, resolution, bits) ==
    _serialize_resolution_int(value, resolution, bits)

\* raw * resolution as a float: resolution.den = 1 in the value's unit
_deserialize_resolution_float(bitarray, resolution) ==
    LET raw == _deserialize_int(bitarray)
    IN  IF Raised(raw) THEN raw ELSE Return(raw.val * resolution.num)

_deserialize_resolution_int(bitarray, resolution) ==
    LET raw == _deserialize_int(bitarray)
    IN  IF Raised(raw) THEN raw
        ELSE Return(TruncDiv(raw.val * resolution.num, resolution.den))

_serialize_resolution_offset_uint(value, offset, resolution, bits) ==
    _serialize_resolution_uint(value + offset, resolution, bits)

_deserialize_resolution_offset_uint(bitarray, offset, resolution) ==
    LET scaled == _deserialize_resolution_uint(bitarray, resolution)
    IN  IF Raised(scaled) THEN scaled ELSE Return(scaled.val - offset)

(***************************************************************************)
(* Strings are sequences of code points; the str methods are modelled for  *)
(* strings over the Latin-1 range 0..255                                   *)
(***************************************************************************)
SPACE == 32
Whitespace == {9, 10, 11, 12, 13, 28, 29, 30, 31, 32, 133, 160}

RECURSIVE lstrip(_)
lstrip(str) ==
    IF Len(str) > 0 /\ str[1] \in Whitespace THEN lstrip(Tail(str)) ELSE str

RECURSIVE rstrip(_)
rstrip(str) ==
    IF Len(str) > 0 /\ str[Len(str)] \in Whitespace
    THEN rstrip(SubSeq(str, 1, Len(str) - 1)) ELSE str

strip(str) == rstrip(lstrip(str))

\* str.upper(): the sharp s becomes SS, and the micro sign and the y with
\* diaeresis get capitals outside the Latin-1 range
RECURSIVE upper(_)
upper(str) ==
    IF Len(str) = 0 THEN <<>>
    ELSE (LET c == str[1]
          IN  IF c \in (97..122) \cup (224..246) \cup (248..254) THEN <<c - 32>>
              ELSE IF c = 223 THEN <<83, 83>>
              ELSE IF c = 181 THEN <<924>>
              ELSE IF c = 255 THEN <<376>>
              ELSE <<c>>) \o upper(Tail(str))

\* str.isalnum(): letters and numeric characters of any script, not ASCII only
isalnum(str) ==
    /\ Len(str) > 0
    /\ \A k \in 1..Len(str) :
          str[k] \in (48..57) \cup (65..90) \cup (97..122)
                      \cup {170, 178, 179, 181, 185, 186, 188, 189, 190}
                      \cup (192..214) \cup (216..246) \cup (248..255) \cup {376, 924}

\* value.ljust(num_bytes)[:num_bytes].encode(encoding), as a BitArray
_serialize_str(value, bits, encoding) ==
    LET num_bytes == bits \div 8
        padded == [k \in 1..Max(Len(value), num_bytes) |->
                      IF k <= Len(value) THEN value[k] ELSE SPACE]
        cut == SliceTo(padded, num_bytes)
    IN  IF \E k \in 1..Len(cut) : cut[k] > 127 THEN Raise("UnicodeEncodeError")
        ELSE Return(BitArrayBytes(cut))

\* bitarray.bytes.decode(encoding)
_deserialize_str(bitarray, encoding) ==
    IF Len(bitarray) % 8 # 0 THEN Raise("InterpretError")
    ELSE IF \E k \in 1..Len(tobytes(bitarray)) : tobytes(bitarray)[k] > 127
         THEN Raise("UnicodeDecodeError")
    ELSE Return(tobytes(bitarray))

(***************************************************************************)
(* Optional values                                                         *)
(***************************************************************************)
None == [some |-> FALSE]
Some(v) == [some |-> TRUE, v |-> v]

(***************************************************************************)
(* gdl90py/enums.py                                                        *)
(***************************************************************************)
TrackType == 0..3
Integrity == 0..11
Integrity_unknown == 0
Accuracy == 0..11
AddressType == 0..5
EmitterCategory == (0..7) \cup (9..12) \cup {14, 15} \cup (17..21)
EmergencyPriorityCode == 0..6

(***************************************************************************)
(* gdl90py/messages/_base_traffic_report.py                                *)
(* latitude and longitude are counted in units of 2^-21 degree, in which   *)
(* LATLON_RESOLUTION = 180 / 2^23 degree is 45                             *)
(***************************************************************************)
LATLON_UNITS_PER_DEGREE == 2097152
TRAFFIC_ALERT_BITS == 4
ADDRESS_TYPE_BITS == 4
ADDRESS_BITS == 24
LATITUDE_BITS == 24
LATITUDE_MAX == 90
LATITUDE_MIN == -90
LONGITUDE_BITS == 24
LONGITUDE_MAX == 180
LONGITUDE_MIN == -180
LATLON_RESOLUTION == Resolution(45, 1)
PRESSURE_ALTITUDE_BITS == 12
PRESSURE_ALTITUDE_RESOLUTION == Resolution(25, 1)
PRESSURE_ALTITUDE_OFFSET == 1000
PRESSURE_ALTITUDE_MINIMUM == -1000
PRESSURE_ALTITUDE_MAXIMUM == 101350
PRESSURE_ALTITUDE_INVALID_VALUE == 4095
TRACK_TYPE_BITS == 2
INTEGRITY_BITS == 4
ACCURACY_BITS == 4
HORIZONTAL_VELOCITY_BITS == 12
HORIZONTAL_VELOCITY_MAX == 4094
HORIZONTAL_VELOCITY_INVALID == 4095
VERTICAL_VELOCITY_BITS == 12
VERTICAL_VELOCITY_RESOLUTION == Resolution(64, 1)
VERTICAL_VELOCITY_INVALID == 2048
VERTICAL_VELOCITY_MAX == 32576
VERTICAL_VELOCITY_MIN == -32576
VERTICAL_VELOCITY_MAX_VALUE == 32640
VERTICAL_VELOCITY_MIN_VALUE == -32640
TRACK_BITS == 8
TRACK_RESOLUTION == Resolution(360, 256)
EMITTER_CATEGORY_BITS == 8
CALLSIGN_BITS == 64
EMERGENCY_PRIORITY_CODE_BITS == 4
TRAFFIC_RESERVED_BITS == 4

\* reads the first (most significant) bit of the 4-bit span
_deserialize_traffic_alert(traffic_alert_bitarray) ==
    IF Len(traffic_alert_bitarray) = 0 THEN Raise("IndexError")
    ELSE Return(traffic_alert_bitarray[1] = 1)

_serialize_traffic_alert(self) ==
    _serialize_uint(IF self.traffic_alert THEN 1 ELSE 0, TRAFFIC_ALERT_BITS, TRUE)

_serialize_address(self) == _serialize_uint(self.address, ADDRESS_BITS, FALSE)

\* _serialize_latitude without the test of integrity
_serialize_latitude_any_integrity(self) ==
    LET in_range == /\ LATITUDE_MIN * LATLON_UNITS_PER_DEGREE <= self.latitude
                    /\ self.latitude <= LATITUDE_MAX * LATLON_UNITS_PER_DEGREE
        latitude == IF ~in_range THEN 0 ELSE self.latitude
    IN  _serialize_resolution_float(latitude, LATLON_RESOLUTION, LATITUDE_BITS)

_serialize_latitude(self) ==
    LET in_range == /\ LATITUDE_MIN * LATLON_UNITS_PER_DEGREE <= self.latitude
                    /\ self.latitude <= LATITUDE_MAX * LATLON_UNITS_PER_DEGREE
        latitude == IF ~in_range \/ self.integrity = Integrity_unknown THEN 0 ELSE self.latitude
    IN  _serialize_resolution_float(latitude, LATLON_RESOLUTION, LATITUDE_BITS)

_serialize_longitude(self) ==
    LET in_range == /\ LONGITUDE_MIN * LATLON_UNITS_PER_DEGREE <= self.longitude
                    /\ self.longitude <= LONGITUDE_MAX * LATLON_UNITS_PER_DEGREE
        longitude == IF ~in_range \/ self.integrity = Integrity_unknown THEN 0 ELSE self.longitude
    IN  _serialize_resolution_float(longitude, LATLON_RESOLUTION, LONGITUDE_BITS)

_deserialize_pressure_altitude(pressure_altitude_bitarray) ==
    LET raw == _deserialize_uint(pressure_altitude_bitarray)
        value == _deserialize_resolution_offset_uint(pressure_altitude_bitarray,
                     PRESSURE_ALTITUDE_OFFSET, PRESSURE_ALTITUDE_RESOLUTION)
    IN  IF Raised(raw) THEN raw
        ELSE IF raw.val = PRESSURE_ALTITUDE_INVALID_VALUE THEN Return(None)
        ELSE Return(Some(value.val))

_serialize_pressure_altitude(self) ==
    IF ~self.pressure_altitude.some
    THEN _serialize_uint(PRESSURE_ALTITUDE_INVALID_VALUE, PRESSURE_ALTITUDE_BITS, TRUE)
    ELSE _serialize_resolution_offset_uint(
             Max(Min(self.pressure_altitude.v, PRESSURE_ALTITUDE_MAXIMUM), PRESSURE_ALTITUDE_MINIMUM),
             PRESSURE_ALTITUDE_OFFSET, PRESSURE_ALTITUDE_RESOLUTION, PRESSURE_ALTITUDE_BITS)

\* _serialize_horizontal_velocity without the min(..., HORIZONTAL_VELOCITY_MAX)
_serialize_horizontal_velocity_unclamped(self) ==
    IF ~self.horizontal_velocity.some
    THEN _serialize_uint(HORIZONTAL_VELOCITY_INVALID, HORIZONTAL_VELOCITY_BITS, TRUE)
    ELSE _serialize_uint(self.horizontal_velocity.v, HORIZONTAL_VELOCITY_BITS, TRUE)

_serialize_horizontal_velocity(self) ==
    IF ~self.horizontal_velocity.some
    THEN _serialize_uint(HORIZONTAL_VELOCITY_INVALID, HORIZONTAL_VELOCITY_BITS, TRUE)
    ELSE _serialize_uint(Min(self.horizontal_velocity.v, HORIZONTAL_VELOCITY_MAX),
                         HORIZONTAL_VELOCITY_BITS, TRUE)

_deserialize_horizontal_velocity(horizontal_velocity_bitarray) ==
    LET raw == _deserialize_uint(horizontal_velocity_bitarray)
    IN  IF Raised(raw) THEN raw
        ELSE IF raw.val = HORIZONTAL_VELOCITY_INVALID THEN Return(None)
        ELSE Return(Some(raw.val))

\* _serialize_vertical_velocity writing the all-ones pattern for None
_serialize_vertical_velocity_all_ones(self) ==
    IF ~self.vertical_velocity.some
    THEN _serialize_uint(HORIZONTAL_VELOCITY_INVALID, VERTICAL_VELOCITY_BITS, TRUE)
    ELSE _serialize_resolution_int(self.vertical_velocity.v, VERTICAL_VELOCITY_RESOLUTION,
                                   VERTICAL_VELOCITY_BITS)

_serialize_vertical_velocity(self) ==
    IF ~self.vertical_velocity.some
    THEN _serialize_uint(VERTICAL_VELOCITY_INVALID, VERTICAL_VELOCITY_BITS, TRUE)
    ELSE LET above == IF self.vertical_velocity.v > VERTICAL_VELOCITY_MAX
                      THEN VERTICAL_VELOCITY_MAX_VALUE ELSE self.vertical_velocity.v
             vertical_velocity == IF above < VERTICAL_VELOCITY_MIN
                                  THEN VERTICAL_VELOCITY_MIN_VALUE ELSE above
         IN  _serialize_resolution_int(vertical_velocity, VERTICAL_VELOCITY_RESOLUTION,
                                       VERTICAL_VELOCITY_BITS)

_deserialize_vertical_velocity(vertical_velocity_bitarray) ==
    LET raw == _deserialize_uint(vertical_velocity_bitarray)
        value == _deserialize_resolution_int(vertical_velocity_bitarray,
                                             VERTICAL_VELOCITY_RESOLUTION)
    IN  IF Raised(raw) THEN raw
        ELSE IF raw.val = VERTICAL_VELOCITY_INVALID THEN Return(None)
        ELSE Return(Some(value.val))

_serialize_track(self) ==
    _serialize_resolution_uint(self.track, TRACK_RESOLUTION, TRACK_BITS)

_deserialize_track(track_bitarray) ==
    _deserialize_resolution_uint(track_bitarray, TRACK_RESOLUTION)

_serialize_callsign(self) ==
    LET stripped == IF self.callsign.some THEN strip(self.callsign.v) ELSE <<>>
        upcased == SliceTo(upper(stripped), CALLSIGN_BITS)
    IN  IF Len(stripped) > 0 /\ ~isalnum(upcased) THEN Raise("InvalidCallsign")
        ELSE _serialize_str(IF Len(stripped) > 0 THEN upcased ELSE <<>>, CALLSIGN_BITS, "ascii")

_deserialize_callsign(callsign_bitarray) ==
    LET str == _deserialize_str(callsign_bitarray, "ascii")
    IN  IF Raised(str) THEN str ELSE Return(Some(rstrip(str.val)))

\* the body bits of BaseTrafficReport.serialize, before build
BaseTrafficReport_all_data(self) ==
    Concat(<<
        _serialize_traffic_alert(self),
        _serialize_enum(self.address_type, ADDRESS_TYPE_BITS),
        _serialize_address(self),
        _serialize_latitude(self),
        _serialize_longitude(self),
        _serialize_pressure_altitude(self),
        _serialize_bool(self.airborne),
        _serialize_bool(self.report_extrapolated),
        _serialize_enum(self.track_type, TRACK_TYPE_BITS),
        _serialize_enum(self.integrity, INTEGRITY_BITS),
        _serialize_enum(self.accuracy, ACCURACY_BITS),
        _serialize_horizontal_velocity(self),
        _serialize_vertical_velocity(self),
        _serialize_track(self),
        _serialize_enum(self.emitter_category, EMITTER_CATEGORY_BITS),
        _serialize_callsign(self),
        _serialize_enum(self.emergency_priority_code, EMERGENCY_PRIORITY_CODE_BITS),
        Return(BitArrayUint(0, TRAFFIC_RESERVED_BITS)) >>)

\* BaseTrafficReport.deserialize after _clean_data; cls is the class name
BaseTrafficReport_deserialize(cls, bits) ==
    LET traffic_alert == _deserialize_traffic_alert(pop_bits(bits, 0, TRAFFIC_ALERT_BITS))
        address_type == _deserialize_enum(pop_bits(bits, 4, ADDRESS_TYPE_BITS), AddressType)
        address == _deserialize_uint(pop_bits(bits, 8, ADDRESS_BITS))
        latitude == _deserialize_resolution_float(pop_bits(bits, 32, LATITUDE_BITS), LATLON_RESOLUTION)
        longitude == _deserialize_resolution_float(pop_bits(bits, 56, LONGITUDE_BITS), LATLON_RESOLUTION)
        pressure_altitude == _deserialize_pressure_altitude(pop_bits(bits, 80, PRESSURE_ALTITUDE_BITS))
        airborne == _deserialize_bool(pop_bits(bits, 92, 1))
        report_extrapolated == _deserialize_bool(pop_bits(bits, 93, 1))
        track_type == _deserialize_enum(pop_bits(bits, 94, TRACK_TYPE_BITS), TrackType)
        integrity == _deserialize_enum(pop_bits(bits, 96, INTEGRITY_BITS), Integrity)
        accuracy == _deserialize_enum(pop_bits(bits, 100, ACCURACY_BITS), Accuracy)
        horizontal_velocity == _deserialize_horizontal_velocity(pop_bits(bits, 104, HORIZONTAL_VELOCITY_BITS))
        vertical_velocity == _deserialize_vertical_velocity(pop_bits(bits, 116, VERTICAL_VELOCITY_BITS))
        track == _deserialize_track(pop_bits(bits, 128, TRACK_BITS))
        emitter_category == _deserialize_enum(pop_bits(bits, 136, EMITTER_CATEGORY_BITS), EmitterCategory)
        callsign == _deserialize_callsign(pop_bits(bits, 144, CALLSIGN_BITS))
        emergency_priority_code ==
            _deserialize_enum(pop_bits(bits, 208, EMERGENCY_PRIORITY_CODE_BITS), EmergencyPriorityCode)
        failed == FirstRaised(<<traffic_alert, address_type, address, latitude, longitude,
                                pressure_altitude, airborne, report_extrapolated, track_type,
                                integrity, accuracy, horizontal_velocity, vertical_velocity,
                                track, emitter_category, callsign, emergency_priority_code>>)
    IN  IF Raised(failed) THEN failed
        ELSE IF Len(SliceFrom(bits, 212 + TRAFFIC_RESERVED_BITS)) # 0 THEN Raise("DataTooLong")
        ELSE Return([type |-> cls,
                     traffic_alert |-> traffic_alert.val,
                     address_type |-> address_type.val,
                     address |-> address.val,
                     latitude |-> latitude.val,
                     longitude |-> longitude.val,
                     pressure_altitude |-> pressure_altitude.val,
                     track_type |-> track_type.val,
                     report_extrapolated |-> report_extrapolated.val,
                     airborne |-> airborne.val,
                     integrity |-> integrity.val,
                     accuracy |-> accuracy.val,
                     horizontal_velocity |-> horizontal_velocity.val,
                     vertical_velocity |-> vertical_velocity.val,
                     track |-> track.val,
                     emitter_category |-> emitter_category.val,
                     callsign |-> callsign.val,
                     emergency_priority_code |-> emergency_priority_code.val])

(***************************************************************************)
(* gdl90py/messages/height_above_terrain.py                                *)
(***************************************************************************)
HEIGHT_ABOVE_TERRAIN_BITS == 16
HEIGHT_ABOVE_TERRAIN_INVALID_VALUE == 32768

_serialize_height_above_terrain(self) ==
    IF ~self.height_above_terrain.some
    THEN _serialize_uint(HEIGHT_ABOVE_TERRAIN_INVALID_VALUE, HEIGHT_ABOVE_TERRAIN_BITS, TRUE)
    ELSE _serialize_int(self.height_above_terrain.v, HEIGHT_ABOVE_TERRAIN_BITS, TRUE)

_deserialize_height_above_terrain(height_above_terrain_bitarray) ==
    LET raw == _deserialize_uint(height_above_terrain_bitarray)
        value == _deserialize_int(height_above_terrain_bitarray)
    IN  IF Raised(raw) THEN raw
        ELSE IF raw.val = HEIGHT_ABOVE_TERRAIN_INVALID_VALUE THEN Return(None)
        ELSE Return(Some(value.val))

\* deserialize without the test of what is left after the last field
HeightAboveTerrainMessage_deserialize_any_length(bits) ==
    LET height_above_terrain ==
            _deserialize_height_above_terrain(pop_bits(bits, 0, HEIGHT_ABOVE_TERRAIN_BITS))
    IN  IF Raised(height_above_terrain) THEN height_above_terrain
        ELSE Return([type |-> "HeightAboveTerrainMessage",
                     height_above_terrain |-> height_above_terrain.val])

HeightAboveTerrainMessage_deserialize(bits) ==
    LET height_above_terrain ==
            _deserialize_height_above_terrain(pop_bits(bits, 0, HEIGHT_ABOVE_TERRAIN_BITS))
    IN  IF Raised(height_above_terrain) THEN height_above_terrain
        ELSE IF Len(SliceFrom(bits, HEIGHT_ABOVE_TERRAIN_BITS)) # 0 THEN Raise("DataTooLong")
        ELSE Return([type |-> "HeightAboveTerrainMessage",
                     height_above_terrain |-> height_above_terrain.val])

(***************************************************************************)
(* gdl90py/messages/initialization.py                                      *)
(***************************************************************************)
INIT_RESERVED_1_BITS == 1
INIT_RESERVED_2_BITS == 4
INIT_RESERVED_3_BITS == 6

InitializationMessage_all_data(self) ==
    Concat(<<
        Return(BitArrayUint(0, INIT_RESERVED_1_BITS)),
        _serialize_bool(self.audio_test),
        Return(BitArrayUint(0, INIT_RESERVED_2_BITS)),
        _serialize_bool(self.audio_inhibit),
        _serialize_bool(self.CDTI_ok),
        Return(BitArrayUint(0, INIT_RESERVED_3_BITS)),
        _serialize_bool(self.CSA_audio_disable),
        _serialize_bool(self.CSA_disable) >>)

InitializationMessage_deserialize(bits) ==
    LET audio_test == _deserialize_bool(pop_bits(bits, INIT_RESERVED_1_BITS, 1))
        audio_inhibit == _deserialize_bool(pop_bits(bits, 2 + INIT_RESERVED_2_BITS, 1))
        CDTI_ok == _deserialize_bool(pop_bits(bits, 7, 1))
        CSA_audio_disable == _deserialize_bool(pop_bits(bits, 8 + INIT_RESERVED_3_BITS, 1))
        CSA_disable == _deserialize_bool(pop_bits(bits, 15, 1))
        failed == FirstRaised(<<audio_test, audio_inhibit, CDTI_ok, CSA_audio_disable, CSA_disable>>)
    IN  IF Raised(failed) THEN failed
        ELSE IF Len(SliceFrom(bits, 16)) # 0 THEN Raise("DataTooLong")
        ELSE Return([type |-> "InitializationMessage",
                     audio_test |-> audio_test.val,
                     audio_inhibit |-> audio_inhibit.val,
                     CDTI_ok |-> CDTI_ok.val,
                     CSA_audio_disable |-> CSA_audio_disable.val,
                     CSA_disable |-> CSA_disable.val])

(***************************************************************************)
(* gdl90py/messages/ownship_geometric_altitude.py                          *)
(***************************************************************************)
GEO_ALTITUDE_RESOLUTION == Resolution(5, 1)
GEO_ALTITUDE_BITS == 16
VERTICAL_FIGURE_OF_MERIT_UNAVAILABLE == 32767
VERTICAL_FIGURE_OF_MERIT_MAX == 32766
VERTICAL_FIGURE_OF_MERIT_MAX_VALUE == 32766
VERTICAL_FIGURE_OF_MERIT_BITS == 15

_serialize_geo_altitude(self) ==
    _serialize_resolution_int(self.geo_altitude, GEO_ALTITUDE_RESOLUTION, GEO_ALTITUDE_BITS)

\* builds the BitArray directly: bitstring rejects a negative uint
_serialize_vertical_figure_of_merit(self) ==
    LET normalized ==
            IF ~self.vertical_figure_of_merit.some THEN VERTICAL_FIGURE_OF_MERIT_UNAVAILABLE
            ELSE IF self.vertical_figure_of_merit.v > VERTICAL_FIGURE_OF_MERIT_MAX
                 THEN VERTICAL_FIGURE_OF_MERIT_MAX_VALUE
            ELSE self.vertical_figure_of_merit.v
    IN  IF normalized < 0 THEN Raise("CreationError")
        ELSE Return(BitArrayUint(normalized, VERTICAL_FIGURE_OF_MERIT_BITS))

_deserialize_vertical_figure_of_merit(vertical_figure_of_merit_bitarray) ==
    LET raw == _deserialize_uint(vertical_figure_of_merit_bitarray)
    IN  IF Raised(raw) THEN raw
        ELSE IF raw.val = VERTICAL_FIGURE_OF_MERIT_UNAVAILABLE THEN Return(None)
        ELSE IF raw.val = VERTICAL_FIGURE_OF_MERIT_MAX_VALUE
             THEN Return(Some(VERTICAL_FIGURE_OF_MERIT_MAX))
        ELSE Return(Some(raw.val))

OwnshipGeometricAltitudeMessage_all_data(self) ==
    Concat(<<
        _serialize_geo_altitude(self),
        _serialize_bool(self.vertical_warning_indicator),
        _serialize_vertical_figure_of_merit(self) >>)

OwnshipGeometricAltitudeMessage_deserialize(bits) ==
    LET geo_altitude ==
            _deserialize_resolution_int(pop_bits(bits, 0, GEO_ALTITUDE_BITS), GEO_ALTITUDE_RESOLUTION)
        vertical_warning_indicator == _deserialize_bool(pop_bits(bits, 16, 1))
        vertical_figure_of_merit ==
            _deserialize_vertical_figure_of_merit(pop_bits(bits, 17, VERTICAL_FIGURE_OF_MERIT_BITS))
        failed == FirstRaised(<<geo_altitude, vertical_warning_indicator, vertical_figure_of_merit>>)
    IN  IF Raised(failed) THEN failed
        ELSE IF Len(SliceFrom(bits, 32)) # 0 THEN Raise("DataTooLong")
        ELSE Return([type |-> "OwnshipGeometricAltitudeMessage",
                     geo_altitude |-> geo_altitude.val,
                     vertical_warning_indicator |-> vertical_warning_indicator.val,
                     vertical_figure_of_merit |-> vertical_figure_of_merit.val])

(***************************************************************************)
(* gdl90py/messages/_base_uat_report.py and its three subclasses           *)
(***************************************************************************)
TIME_OF_RECEPTION_BITS == 24
TIME_OF_RECEPTION_RESOLUTION == Resolution(80, 1)
TIME_OF_RECEPTION_MIN == 0
TIME_OF_RECEPTION_MAX == 100000000
TIME_OF_RECEPTION_INVALID_VALUE == 16777215

UPLINK_PAYLOAD_BITS ==
    [UplinkDataMessage |-> 432 * 8, BasicUATReportMessage |-> 18 * 8, LongUATReportMessage |-> 34 * 8]

\* BitArray.byteswap(): reverses the order of the (whole) bytes
byteswap(bitarray) ==
    [k \in 1..Len(bitarray) |->
        bitarray[8 * ((Len(bitarray) \div 8) - 1 - ((k - 1) \div 8)) + ((k - 1) % 8) + 1]]

_serialize_time_of_reception(self) ==
    LET result_ ==
            IF \/ ~self.time_of_reception.some
               \/ ~(TIME_OF_RECEPTION_MIN <= self.time_of_reception.v
                      /\ self.time_of_reception.v <= TIME_OF_RECEPTION_MAX)
            THEN _serialize_uint(TIME_OF_RECEPTION_INVALID_VALUE, TIME_OF_RECEPTION_BITS, TRUE)
            ELSE _serialize_resolution_uint(self.time_of_reception.v,
                                            TIME_OF_RECEPTION_RESOLUTION, TIME_OF_RECEPTION_BITS)
    IN  IF Raised(result_) THEN result_ ELSE Return(byteswap(result_.val))

_deserialize_time_of_reception(time_of_reception_bitarray) ==
    LET swapped == byteswap(time_of_reception_bitarray)
        raw == _deserialize_uint(swapped)
        value == _deserialize_resolution_int(swapped, TIME_OF_RECEPTION_RESOLUTION)
    IN  IF Raised(raw) THEN raw
        ELSE IF raw.val = TIME_OF_RECEPTION_INVALID_VALUE THEN Return(None)
        ELSE Return(Some(value.val))

_serialize_uplink_payload(self) ==
    IF 8 * Len(self.uplink_payload) # UPLINK_PAYLOAD_BITS[self.type]
    THEN Raise("UplinkDataWrongSize")
    ELSE Return(BitArrayBytes(self.uplink_payload))

BaseUATReportMessage_all_data(self) ==
    Concat(<<_serialize_time_of_reception(self), _serialize_uplink_payload(self)>>)

BaseUATReportMessage_deserialize(cls, bits) ==
    LET time_of_reception ==
            _deserialize_time_of_reception(pop_bits(bits, 0, TIME_OF_RECEPTION_BITS))
        uplink_payload_bitarray == pop_bits(bits, TIME_OF_RECEPTION_BITS, UPLINK_PAYLOAD_BITS[cls])
    IN  IF Raised(time_of_reception) THEN time_of_reception
        ELSE IF Len(uplink_payload_bitarray) % 8 # 0 THEN Raise("InterpretError")
        ELSE IF Len(SliceFrom(bits, TIME_OF_RECEPTION_BITS + UPLINK_PAYLOAD_BITS[cls])) # 0
             THEN Raise("DataTooLong")
        ELSE Return([type |-> cls,
                     time_of_reception |-> time_of_reception.val,
                     uplink_payload |-> tobytes(uplink_payload_bitarray)])

(***************************************************************************)
(* gdl90py/messages/foreflight_id.py and foreflight_ahrs.py: the decoders  *)
(* device names are kept to the ASCII range of UTF-8                       *)
(***************************************************************************)
VERSION_BITS == 8
DEVICE_SERIAL_NUMBER_BITS == 64
DEVICE_NAME_BITS == 64
DEVICE_LONG_NAME_BITS == 128
FFID_RESERVED_BITS_1 == 7
FFID_RESERVED_BITS_2 == 24

\* the 64-bit serial number is kept as its 64 binary digits; all ones is the
\* invalid value 0xFFFFFFFFFFFFFFFF
_deserialize_device_serial_number(device_serial_number_bitarray) ==
    LET n == Len(device_serial_number_bitarray)
    IN  IF n = 0 THEN Raise("InterpretError")
        ELSE IF n = DEVICE_SERIAL_NUMBER_BITS
                /\ \A k \in 1..n : device_serial_number_bitarray[k] = 1
             THEN Return(None)
        ELSE Return(Some([k \in 1..DEVICE_SERIAL_NUMBER_BITS |->
                            IF k <= DEVICE_SERIAL_NUMBER_BITS - n THEN 0
                            ELSE device_serial_number_bitarray[k - (DEVICE_SERIAL_NUMBER_BITS - n)]]))

_deserialize_device_name(device_name_bitarray) ==
    LET str == _deserialize_str(device_name_bitarray, "utf-8")
    IN  IF Raised(str) THEN str ELSE Return(rstrip(str.val))

\* 0xFFFFFFFFFFFFFFFF, as its 64 binary digits
DEVICE_SERIAL_NUMBER_INVALID_VALUE == [k \in 1..DEVICE_SERIAL_NUMBER_BITS |-> 1]

\* the serial number is given by its binary digits, most significant first (so
\* it is never negative); _serialize_uint(..., constrain=False) raises
\* BadIntegerSize when more than 64 digits are significant
_serialize_device_serial_number(self) ==
    LET device_serial_number ==
            IF ~self.device_serial_number.some THEN DEVICE_SERIAL_NUMBER_INVALID_VALUE
            ELSE self.device_serial_number.v
        n == Len(device_serial_number)
    IN  IF \E k \in 1..(n - DEVICE_SERIAL_NUMBER_BITS) : device_serial_number[k] = 1
        THEN Raise("BadIntegerSize")
        ELSE Return([k \in 1..DEVICE_SERIAL_NUMBER_BITS |->
                        IF k + n <= DEVICE_SERIAL_NUMBER_BITS THEN 0
                        ELSE device_serial_number[k + n - DEVICE_SERIAL_NUMBER_BITS]])

ForeFlightIDMessage_deserialize(bits) ==
    LET version == _deserialize_uint(pop_bits(bits, 0, VERSION_BITS))
        device_serial_number ==
            _deserialize_device_serial_number(pop_bits(bits, 8, DEVICE_SERIAL_NUMBER_BITS))
        device_name == _deserialize_device_name(pop_bits(bits, 72, DEVICE_NAME_BITS))
        device_long_name == _deserialize_device_name(pop_bits(bits, 136, DEVICE_LONG_NAME_BITS))
        is_msl == _deserialize_bool(pop_bits(bits, 264 + FFID_RESERVED_BITS_1, 1))
        failed == FirstRaised(<<version, device_serial_number, device_name, device_long_name, is_msl>>)
    IN  IF Raised(failed) THEN failed
        ELSE IF Len(SliceFrom(bits, 272 + FFID_RESERVED_BITS_2)) # 0 THEN Raise("DataTooLong")
        ELSE Return([type |-> "ForeFlightIDMessage",
                     device_serial_number |-> device_serial_number.val,
                     device_name |-> device_name.val,
                     device_long_name |-> Some(device_long_name.val),
                     is_msl |-> is_msl.val,
                     version |-> version.val])

ROLL_BITS == 16
ROLL_RESOLUTION == Resolution(1, 10)
ROLL_INVALID_VALUE == 32767
PITCH_BITS == 16
IS_MAGNETIC_HEADING_BITS == 1
HEADING_BITS == 15
HEADING_INVALID_VALUE == 65535
INDICATED_AIRSPEED_BITS == 16
INDICATED_AIRSPEED_INVALID_VALUE == 65535
TRUE_AIRSPEED_BITS == 16

\* the record's roll, pitch and heading are counted in tenths of a degree
\* when they are encoded: value / RESOLUTION is then the value itself
AHRS_UNITS_PER_DEGREE == 10
ROLL_MIN == -180
ROLL_MAX == 180
HEADING_MIN == -360
HEADING_MAX == 360

_serialize_roll(self) ==
    IF \/ ~self.roll.some
       \/ ~(ROLL_MIN * AHRS_UNITS_PER_DEGREE <= self.roll.v
              /\ self.roll.v <= ROLL_MAX * AHRS_UNITS_PER_DEGREE)
    THEN _serialize_uint(ROLL_INVALID_VALUE, ROLL_BITS, TRUE)
    ELSE _serialize_resolution_int(self.roll.v,
             Resolution(ROLL_RESOLUTION.num * AHRS_UNITS_PER_DEGREE, ROLL_RESOLUTION.den),
             ROLL_BITS)

\* the PITCH_ constants have the values of the ROLL_ constants
_serialize_pitch(self) == _serialize_roll([roll |-> self.pitch])

_serialize_heading(self) ==
    IF \/ ~self.heading.some
       \/ ~(HEADING_MIN * AHRS_UNITS_PER_DEGREE <= self.heading.v
              /\ self.heading.v <= HEADING_MAX * AHRS_UNITS_PER_DEGREE)
       \/ ~self.is_magnetic_heading.some
    THEN _serialize_uint(HEADING_INVALID_VALUE, IS_MAGNETIC_HEADING_BITS + HEADING_BITS, TRUE)
    ELSE Concat(<<_serialize_bool(self.is_magnetic_heading.v),
                  _serialize_resolution_int(self.heading.v,
                      Resolution(ROLL_RESOLUTION.num * AHRS_UNITS_PER_DEGREE, ROLL_RESOLUTION.den),
                      HEADING_BITS)>>)

_serialize_indicated_airspeed(self) ==
    IF ~self.indicated_airspeed.some
    THEN _serialize_uint(INDICATED_AIRSPEED_INVALID_VALUE, INDICATED_AIRSPEED_BITS, TRUE)
    ELSE _serialize_int(self.indicated_airspeed.v, INDICATED_AIRSPEED_BITS, TRUE)

\* the TRUE_AIRSPEED_ constants have the values of the INDICATED_AIRSPEED_ ones
_serialize_true_airspeed(self) ==
    _serialize_indicated_airspeed([indicated_airspeed |-> self.true_airspeed])

\* _deserialize_roll and _deserialize_pitch
_deserialize_roll(roll_bitarray) ==
    LET raw == _deserialize_uint(roll_bitarray)
        value == _deserialize_resolution_int(roll_bitarray, ROLL_RESOLUTION)
    IN  IF Raised(raw) THEN raw
        ELSE IF raw.val = ROLL_INVALID_VALUE THEN Return(None)
        ELSE Return(Some(value.val))

\* returns the pair (is_magnetic_heading, heading)
_deserialize_heading(heading_bitarray) ==
    LET raw == _deserialize_uint(heading_bitarray)
        value == _deserialize_resolution_int(SliceFrom(heading_bitarray, IS_MAGNETIC_HEADING_BITS),
                                             ROLL_RESOLUTION)
    IN  IF Raised(raw) THEN raw
        ELSE IF raw.val = HEADING_INVALID_VALUE THEN Return(<<None, None>>)
        ELSE IF Raised(value) THEN value
        ELSE Return(<<Some(heading_bitarray[1] = 1), Some(value.val)>>)

\* _deserialize_indicated_airspeed and _deserialize_true_airspeed
_deserialize_indicated_airspeed(indicated_airspeed_bitarray) ==
    LET raw == _deserialize_uint(indicated_airspeed_bitarray)
        value == _deserialize_int(indicated_airspeed_bitarray)
    IN  IF Raised(raw) THEN raw
        ELSE IF raw.val = INDICATED_AIRSPEED_INVALID_VALUE THEN Return(None)
        ELSE Return(Some(value.val))

ForeFlightAHRSMessage_deserialize(bits) ==
    LET roll == _deserialize_roll(pop_bits(bits, 0, ROLL_BITS))
        pitch == _deserialize_roll(pop_bits(bits, 16, PITCH_BITS))
        heading == _deserialize_heading(pop_bits(bits, 32, IS_MAGNETIC_HEADING_BITS + HEADING_BITS))
        indicated_airspeed == _deserialize_indicated_airspeed(pop_bits(bits, 48, INDICATED_AIRSPEED_BITS))
        true_airspeed == _deserialize_indicated_airspeed(pop_bits(bits, 64, TRUE_AIRSPEED_BITS))
        failed == FirstRaised(<<roll, pitch, heading, indicated_airspeed, true_airspeed>>)
    IN  IF Raised(failed) THEN failed
        ELSE IF Len(SliceFrom(bits, 80)) # 0 THEN Raise("DataTooLong")
        ELSE Return([type |-> "ForeFlightAHRSMessage",
                     roll |-> roll.val,
                     pitch |-> pitch.val,
                     is_magnetic_heading |-> heading.val[1],
                     heading |-> heading.val[2],
                     indicated_airspeed |-> indicated_airspeed.val,
                     true_airspeed |-> true_airspeed.val])

(***************************************************************************)
(* Message classes, their MESSAGE_IDS, and the dispatch on the class       *)
(***************************************************************************)
\* gdl90py/messages/traffic_report.py
TrafficReportMessage_MESSAGE_IDS == <<20>>

MESSAGE_IDS ==
    [HeartbeatMessage |-> HeartbeatMessage_MESSAGE_IDS,
     InitializationMessage |-> <<2>>,
     UplinkDataMessage |-> <<7>>,
     HeightAboveTerrainMessage |-> <<9>>,
     OwnshipReportMessage |-> <<10>>,
     OwnshipGeometricAltitudeMessage |-> <<11>>,
     TrafficReportMessage |-> TrafficReportMessage_MESSAGE_IDS,
     BasicUATReportMessage |-> <<30>>,
     LongUATReportMessage |-> <<31>>,
     ForeFlightIDMessage |-> <<FOREFLIGHT_MESSAGE_ID, 0>>,
     ForeFlightAHRSMessage |-> <<FOREFLIGHT_MESSAGE_ID, 1>>]

\* the body bits of self.serialize, before build
all_data(self) ==
    CASE self.type = "HeartbeatMessage" -> HeartbeatMessage_all_data(self)
      [] self.type = "InitializationMessage" -> InitializationMessage_all_data(self)
      [] self.type = "HeightAboveTerrainMessage" -> _serialize_height_above_terrain(self)
      [] self.type = "OwnshipGeometricAltitudeMessage" -> OwnshipGeometricAltitudeMessage_all_data(self)
      [] self.type \in {"OwnshipReportMessage", "TrafficReportMessage"} -> BaseTrafficReport_all_data(self)
      [] self.type \in {"UplinkDataMessage", "BasicUATReportMessage", "LongUATReportMessage"} ->
            BaseUATReportMessage_all_data(self)

\* self.serialize(outgoing_lsb): no bytes are produced when a field raises
serialize(self, lsb_first) ==
    LET bits == all_data(self)
    IN  IF Raised(bits) THEN bits
        ELSE Return(build(MESSAGE_IDS[self.type], bits.val, lsb_first))

\* cls.deserialize on a BitArray (after _clean_data)
deserialize_data(cls, bits) ==
    CASE cls = "HeartbeatMessage" -> HeartbeatMessage_deserialize(bits)
      [] cls = "InitializationMessage" -> InitializationMessage_deserialize(bits)
      [] cls = "HeightAboveTerrainMessage" -> HeightAboveTerrainMessage_deserialize(bits)
      [] cls = "OwnshipGeometricAltitudeMessage" -> OwnshipGeometricAltitudeMessage_deserialize(bits)
      [] cls \in {"OwnshipReportMessage", "TrafficReportMessage"} -> BaseTrafficReport_deserialize(cls, bits)
      [] cls \in {"UplinkDataMessage", "BasicUATReportMessage", "LongUATReportMessage"} ->
            BaseUATReportMessage_deserialize(cls, bits)
      [] cls = "ForeFlightIDMessage" -> ForeFlightIDMessage_deserialize(bits)
      [] cls = "ForeFlightAHRSMessage" -> ForeFlightAHRSMessage_deserialize(bits)

\* the number of bits a sequence of pop_bits calls asks for; each entry is the
\* width popped and the outcome of the decoding call the pop is an argument of
\* (a pop on its own cannot fail), and an exception ends the sequence
RECURSIVE PoppedBits(_)
PoppedBits(pops) ==
    IF Len(pops) = 0 THEN 0
    ELSE pops[1][1] + (IF Raised(pops[1][2]) THEN 0 ELSE PoppedBits(Tail(pops)))

\* the bits cls.deserialize deletes from the front of the BitArray it decodes:
\* the pop_bits calls in the order of each deserialize
popped(cls, bits) ==
    LET none == Return(<<>>)
        bool(offset) == _deserialize_bool(pop_bits(bits, offset, 1))
        enum(offset, width, members) == _deserialize_enum(pop_bits(bits, offset, width), members)
    IN  PoppedBits(
        CASE cls = "HeartbeatMessage" ->
                << <<1, bool(0)>>, <<1, bool(1)>>, <<1, bool(2)>>, <<1, bool(3)>>, <<1, bool(4)>>,
                   <<1, bool(5)>>, <<HB_RESERVED_1_BITS, none>>, <<1, bool(7)>>,
                   <<TIMESTAMP_BITS_1, none>>, <<1, bool(9)>>, <<1, bool(10)>>,
                   <<HB_RESERVED_2_BITS, none>>, <<1, bool(15)>>, <<TIMESTAMP_BITS_2, none>>,
                   <<TIMESTAMP_BITS_3,
                     _deserialize_timestamp(pop_bits(bits, 8, TIMESTAMP_BITS_1)
                                                \o pop_bits(bits, 24, TIMESTAMP_BITS_3)
                                                \o pop_bits(bits, 16, TIMESTAMP_BITS_2))>>,
                   <<UPLINK_MESSAGES_COUNT_BITS,
                     _deserialize_uint(pop_bits(bits, 32, UPLINK_MESSAGES_COUNT_BITS))>>,
                   <<HB_RESERVED_3_BITS, none>>,
                   <<BASIC_LONG_MESSAGES_COUNT_BITS,
                     _deserialize_uint(pop_bits(bits, 38, BASIC_LONG_MESSAGES_COUNT_BITS))>> >>
          [] cls = "InitializationMessage" ->
                << <<INIT_RESERVED_1_BITS, none>>, <<1, bool(1)>>, <<INIT_RESERVED_2_BITS, none>>,
                   <<1, bool(6)>>, <<1, bool(7)>>, <<INIT_RESERVED_3_BITS, none>>,
                   <<1, bool(14)>>, <<1, bool(15)>> >>
          [] cls = "HeightAboveTerrainMessage" ->
                << <<HEIGHT_ABOVE_TERRAIN_BITS,
                     _deserialize_height_above_terrain(pop_bits(bits, 0, HEIGHT_ABOVE_TERRAIN_BITS))>> >>
          [] cls = "OwnshipGeometricAltitudeMessage" ->
                << <<GEO_ALTITUDE_BITS,
                     _deserialize_resolution_int(pop_bits(bits, 0, GEO_ALTITUDE_BITS),
                                                 GEO_ALTITUDE_RESOLUTION)>>,
                   <<1, bool(16)>>,
                   <<VERTICAL_FIGURE_OF_MERIT_BITS,
                     _deserialize_vertical_figure_of_merit(
                         pop_bits(bits, 17, VERTICAL_FIGURE_OF_MERIT_BITS))>> >>
          [] cls \in {"OwnshipReportMessage", "TrafficReportMessage"} ->
                << <<TRAFFIC_ALERT_BITS, _deserialize_traffic_alert(pop_bits(bits, 0, TRAFFIC_ALERT_BITS))>>,
                   <<ADDRESS_TYPE_BITS, enum(4, ADDRESS_TYPE_BITS, AddressType)>>,
                   <<ADDRESS_BITS, _deserialize_uint(pop_bits(bits, 8, ADDRESS_BITS))>>,
                   <<LATITUDE_BITS, _deserialize_resolution_float(pop_bits(bits, 32, LATITUDE_BITS),
                                                                  LATLON_RESOLUTION)>>,
                   <<LONGITUDE_BITS, _deserialize_resolution_float(pop_bits(bits, 56, LONGITUDE_BITS),
                                                                   LATLON_RESOLUTION)>>,
                   <<PRESSURE_ALTITUDE_BITS,
                     _deserialize_pressure_altitude(pop_bits(bits, 80, PRESSURE_ALTITUDE_BITS))>>,
                   <<1, bool(92)>>, <<1, bool(93)>>,
                   <<TRACK_TYPE_BITS, enum(94, TRACK_TYPE_BITS, TrackType)>>,
                   <<INTEGRITY_BITS, enum(96, INTEGRITY_BITS, Integrity)>>,
                   <<ACCURACY_BITS, enum(100, ACCURACY_BITS, Accuracy)>>,
                   <<HORIZONTAL_VELOCITY_BITS,
                     _deserialize_horizontal_velocity(pop_bits(bits, 104, HORIZONTAL_VELOCITY_BITS))>>,
                   <<VERTICAL_VELOCITY_BITS,
                     _deserialize_vertical_velocity(pop_bits(bits, 116, VERTICAL_VELOCITY_BITS))>>,
                   <<TRACK_BITS, _deserialize_track(pop_bits(bits, 128, TRACK_BITS))>>,
                   <<EMITTER_CATEGORY_BITS, enum(136, EMITTER_CATEGORY_BITS, EmitterCategory)>>,
                   <<CALLSIGN_BITS, _deserialize_callsign(pop_bits(bits, 144, CALLSIGN_BITS))>>,
                   <<EMERGENCY_PRIORITY_CODE_BITS,
                     enum(208, EMERGENCY_PRIORITY_CODE_BITS, EmergencyPriorityCode)>>,
                   <<TRAFFIC_RESERVED_BITS, none>> >>
          [] cls \in {"UplinkDataMessage", "BasicUATReportMessage", "LongUATReportMessage"} ->
                << <<TIME_OF_RECEPTION_BITS,
                     _deserialize_time_of_reception(pop_bits(bits, 0, TIME_OF_RECEPTION_BITS))>>,
                   <<UPLINK_PAYLOAD_BITS[cls],
                     IF Len(pop_bits(bits, TIME_OF_RECEPTION_BITS, UPLINK_PAYLOAD_BITS[cls])) % 8 # 0
                     THEN Raise("InterpretError") ELSE none>> >>
          [] cls = "ForeFlightIDMessage" ->
                << <<VERSION_BITS, _deserialize_uint(pop_bits(bits, 0, VERSION_BITS))>>,
                   <<DEVICE_SERIAL_NUMBER_BITS,
                     _deserialize_device_serial_number(pop_bits(bits, 8, DEVICE_SERIAL_NUMBER_BITS))>>,
                   <<DEVICE_NAME_BITS, _deserialize_device_name(pop_bits(bits, 72, DEVICE_NAME_BITS))>>,
                   <<DEVICE_LONG_NAME_BITS,
                     _deserialize_device_name(pop_bits(bits, 136, DEVICE_LONG_NAME_BITS))>>,
                   <<FFID_RESERVED_BITS_1, none>>, <<1, bool(271)>>, <<FFID_RESERVED_BITS_2, none>> >>
          [] cls = "ForeFlightAHRSMessage" ->
                << <<ROLL_BITS, _deserialize_roll(pop_bits(bits, 0, ROLL_BITS))>>,
                   <<PITCH_BITS, _deserialize_roll(pop_bits(bits, 16, PITCH_BITS))>>,
                   <<IS_MAGNETIC_HEADING_BITS + HEADING_BITS,
                     _deserialize_heading(pop_bits(bits, 32, IS_MAGNETIC_HEADING_BITS + HEADING_BITS))>>,
                   <<INDICATED_AIRSPEED_BITS,
                     _deserialize_indicated_airspeed(pop_bits(bits, 48, INDICATED_AIRSPEED_BITS))>>,
                   <<TRUE_AIRSPEED_BITS,
                     _deserialize_indicated_airspeed(pop_bits(bits, 64, TRUE_AIRSPEED_BITS))>> >>)

\* cls.deserialize on a framed byte string
deserialize(cls, bytes_, incoming_msb) ==
    LET cleaned == _clean_data(MESSAGE_IDS[cls], bytes_, incoming_msb)
    IN  IF Raised(cleaned) THEN cleaned ELSE deserialize_data(cls, cleaned.val)

(***************************************************************************)
(* gdl90py/parser.py                                                       *)
(***************************************************************************)
\* the registry with HeightAboveTerrainMessage left out of the list
KNOWN_MESSAGE_TYPES_without_height ==
    [ids \in {MESSAGE_IDS[cls] : cls \in DOMAIN MESSAGE_IDS \ {"HeightAboveTerrainMessage"}} |->
        CHOOSE cls \in DOMAIN MESSAGE_IDS : MESSAGE_IDS[cls] = ids]

\* {msg.MESSAGE_IDS: msg for msg in [...]}
KNOWN_MESSAGE_TYPES ==
    [ids \in {MESSAGE_IDS[cls] : cls \in DOMAIN MESSAGE_IDS} |->
        CHOOSE cls \in DOMAIN MESSAGE_IDS : MESSAGE_IDS[cls] = ids]

\* parse_message that skips a frame on any failure when ignore_unknown is set
parse_message_swallow(bytes_, incoming_msb, ignore_unknown_) ==
    LET d == deconstruct(bytes_, incoming_msb)
    IN  IF Raised(d) THEN (IF ignore_unknown_ THEN Return(None) ELSE d)
        ELSE IF d.val[1] \notin DOMAIN KNOWN_MESSAGE_TYPES
             THEN IF ignore_unknown_ THEN Return(None) ELSE Raise("UnkownMessageID")
        ELSE deserialize_data(KNOWN_MESSAGE_TYPES[d.val[1]], d.val[2])

\* parse_message; the Python value None is Return(None)
parse_message(bytes_, incoming_msb, ignore_unknown_) ==
    LET d == deconstruct(bytes_, incoming_msb)
    IN  IF Raised(d) THEN d
        ELSE IF d.val[1] \notin DOMAIN KNOWN_MESSAGE_TYPES
             THEN IF ignore_unknown_ THEN Return(None) ELSE Raise("UnkownMessageID")
        ELSE deserialize_data(KNOWN_MESSAGE_TYPES[d.val[1]], d.val[2])

\* data.count(FLAG_BYTE)
count(bytes_, byte) == Cardinality({k \in 1..Len(bytes_) : bytes_[k] = byte})

\* the index parse_messages cuts the next message at; the search starts at 1
\* to skip the opening flag
message_end_index_from_0(bytes_) == index(bytes_, FLAG_BYTE, 0)

message_end_index(bytes_) == index(bytes_, FLAG_BYTE, 1)

\* the for loop of parse_messages with n iterations left
RECURSIVE parse_messages_loop(_, _, _, _, _)
parse_messages_loop(bytes_, n, output, incoming_msb, ignore_unknown_) ==
    IF n = 0 THEN Return(output)
    ELSE LET end_index == message_end_index(bytes_)
             msg == parse_message(SliceTo(bytes_, end_index + 1), incoming_msb, ignore_unknown_)
         IN  IF end_index = -1 THEN Raise("ValueError")
             ELSE IF Raised(msg) THEN msg
             ELSE parse_messages_loop(SliceFrom(bytes_, end_index + 1), n - 1,
                                      IF msg.val # None THEN Append(output, msg.val) ELSE output,
                                      incoming_msb, ignore_unknown_)

parse_messages(bytes_, incoming_msb, ignore_unknown_) ==
    parse_messages_loop(bytes_, count(bytes_, FLAG_BYTE) \div 2, <<>>,
                        incoming_msb, ignore_unknown_)

\* byte strings over SampleBytes of length 0..n
ByteStrings(n) == UNION {[1..k -> SampleBytes] : k \in 0..n}

\* bytes a tampering step writes over a byte of the frame
TamperBytes == SampleBytes \cup {255}

\* bytes a tampering step writes over a flag byte
FlagReplacements == {0, CONTROL_ESCAPE_BYTE}

NoResult == [exc |-> "pending", val |-> <<>>]

\* the broadcaster's state where no broadcaster runs
NoServer == [accepted |-> 0]

(***************************************************************************)
(* Framing: build a frame, optionally damage it, deconstruct it            *)
(***************************************************************************)
InitFrame ==
    /\ pc = "start"
    /\ message_ids \in DOMAIN KNOWN_MESSAGE_TYPES
    /\ body \in {BitArrayBytes(b) : b \in ByteStrings(MaxBodyLen)}
    /\ outgoing_lsb \in BOOLEAN
    /\ crc_out = <<>>
    /\ data = <<>>
    /\ tamper = "none"
    /\ result = NoResult
    /\ rec = <<>>
    /\ frames = <<>>
    /\ ignore_unknown = FALSE
    /\ decoder = "none"
    /\ server = NoServer

\* build(message_ids, body, outgoing_lsb); crc_out records what compute_crc
\* returned inside it
Build ==
    /\ pc = "start"
    /\ crc_out' = compute_crc(message_ids \o tobytes(body))
    /\ data' = build(message_ids, body, outgoing_lsb)
    /\ pc' = "built"
    /\ UNCHANGED <<message_ids, body, outgoing_lsb, tamper, result, rec, frames, ignore_unknown, decoder, server>>

\* the last byte of the CRC (the byte before the closing flag) is replaced
CorruptCrc ==
    /\ pc = "built"
    /\ \E b \in TamperBytes :
          /\ b # data[Len(data) - 1]
          /\ data' = [data EXCEPT ![Len(data) - 1] = b]
    /\ tamper' = "crc"
    /\ pc' = "tampered"
    /\ UNCHANGED <<message_ids, body, outgoing_lsb, crc_out, result, rec, frames, ignore_unknown, decoder, server>>

\* the opening flag, the closing flag or both are replaced by another byte
DropFlag ==
    /\ pc = "built"
    /\ \E which \in {"first", "last", "both"}, b \in FlagReplacements :
          /\ data' = [i \in 1..Len(data) |->
                        IF \/ (i = 1 /\ which \in {"first", "both"})
                           \/ (i = Len(data) /\ which \in {"last", "both"})
                        THEN b ELSE data[i]]
          /\ tamper' = which
    /\ pc' = "tampered"
    /\ UNCHANGED <<message_ids, body, outgoing_lsb, crc_out, result, rec, frames, ignore_unknown, decoder, server>>

\* deconstruct(data, incoming_msb = not outgoing_lsb)
Deconstruct ==
    /\ pc \in {"built", "tampered"}
    /\ result' = deconstruct(data, ~outgoing_lsb)
    /\ pc' = "done"
    /\ UNCHANGED <<message_ids, body, outgoing_lsb, crc_out, data, tamper, rec, frames, ignore_unknown, decoder, server>>

\* escape(body bytes), on its own
Escape ==
    /\ pc = "start"
    /\ data' = escape(tobytes(body))
    /\ pc' = "escaped"
    /\ UNCHANGED <<message_ids, body, outgoing_lsb, crc_out, tamper, result, rec, frames, ignore_unknown, decoder, server>>

\* unescape of what escape returned
Unescape ==
    /\ pc = "escaped"
    /\ result' = unescape(data)
    /\ pc' = "unescaped"
    /\ UNCHANGED <<message_ids, body, outgoing_lsb, crc_out, data, tamper, rec, frames, ignore_unknown, decoder, server>>

NextFrame == Build \/ CorruptCrc \/ DropFlag \/ Deconstruct \/ Escape \/ Unescape

SpecFrame == InitFrame /\ [][NextFrame]_vars

(***************************************************************************)
(* Messages: serialize a record, deserialize the frame                     *)
(***************************************************************************)
\* whole-second UTC times of day the Heartbeat inputs are drawn from:
\* midnight, one second, 0x7E7D (escaped bytes), below and at 2^16, 23:59:59
SampleSeconds == {0, 1, 32381, 65535, 86399}
\* pairs (uplink_messages_count, basic_long_messages_count)
SampleCounts == {<<0, 0>>, <<31, 1023>>}

TimeOfDay(t) ==
    Time(t \div SECONDS_PER_HOUR, (t % SECONDS_PER_HOUR) \div SECONDS_PER_MINUTE,
         t % SECONDS_PER_MINUTE)

HeartbeatRecords ==
    {[type |-> "HeartbeatMessage",
      gps_position_valid |-> b[1],
      maintenance_required |-> b[2],
      ident_talkback |-> b[3],
      self_assigned_address_talkback |-> b[4],
      gps_battery_low |-> b[5],
      RATCS_talkback |-> b[6],
      UAT_initialized |-> b[7],
      CSA_requested |-> b[8],
      CSA_unavailable |-> b[9],
      UTC_timing_valid |-> b[10],
      timestamp |-> TimeOfDay(t),
      uplink_messages_count |-> c[1],
      basic_long_messages_count |-> c[2]] :
        b \in [1..10 -> BOOLEAN], t \in SampleSeconds, c \in SampleCounts}

\* callsigns: "N825V", " n1 " and the empty string
SampleCallsigns ==
    {None, Some(<<78, 56, 50, 53, 86>>), Some(<<32, 110, 49, 32>>), Some(<<>>),
     Some(<<97, 98, 99, 100, 101, 102, 103, 104, 105, 106>>),
     Some(<<65, 45, 66>>), Some(<<201, 49>>)}

\* latitudes and longitudes, in units of 2^-21 degree: 47 and 2 degrees, zero,
\* and a negative value that is not a multiple of the resolution
SampleLatitudes == {0, 47 * LATLON_UNITS_PER_DEGREE, -100}
SampleLongitudes == {2 * LATLON_UNITS_PER_DEGREE, -100}

TrafficRecords ==
    {[type |-> cls,
      traffic_alert |-> alert,
      address_type |-> 0,
      address |-> 11259375,
      latitude |-> lat,
      longitude |-> lon,
      pressure_altitude |-> alt,
      track_type |-> 1,
      report_extrapolated |-> FALSE,
      airborne |-> air,
      integrity |-> nic,
      accuracy |-> 9,
      horizontal_velocity |-> Some(123),
      vertical_velocity |-> vv,
      track |-> 45,
      emitter_category |-> 1,
      callsign |-> cs,
      emergency_priority_code |-> 0] :
        cls \in {"OwnshipReportMessage", "TrafficReportMessage"},
        alert \in BOOLEAN, air \in BOOLEAN,
        lat \in SampleLatitudes, lon \in SampleLongitudes,
        alt \in {None, Some(5000)}, nic \in {Integrity_unknown, 8},
        vv \in {None, Some(-640)}, cs \in SampleCallsigns}

InitMessage(records) ==
    /\ pc = "start"
    /\ rec \in records
    /\ outgoing_lsb \in BOOLEAN
    /\ message_ids = MESSAGE_IDS[rec.type]
    /\ body = <<>>
    /\ crc_out = <<>>
    /\ data = <<>>
    /\ tamper = "none"
    /\ result = NoResult
    /\ frames = <<>>
    /\ ignore_unknown = FALSE
    /\ decoder = "none"
    /\ server = NoServer

InitHeartbeat == InitMessage(HeartbeatRecords)

InitTraffic == InitMessage(TrafficRecords)

\* rec.serialize(outgoing_lsb)
Serialize ==
    /\ pc = "start"
    /\ LET out == serialize(rec, outgoing_lsb)
       IN  IF Raised(out)
           THEN /\ result' = out
                /\ pc' = "failed"
                /\ UNCHANGED data
           ELSE /\ data' = out.val
                /\ pc' = "built"
                /\ UNCHANGED result
    /\ UNCHANGED <<message_ids, body, outgoing_lsb, crc_out, tamper, rec, frames, ignore_unknown, decoder, server>>

\* type(rec).deserialize(data, incoming_msb = not outgoing_lsb)
Deserialize ==
    /\ pc = "built"
    /\ result' = deserialize(rec.type, data, ~outgoing_lsb)
    /\ pc' = "done"
    /\ UNCHANGED <<message_ids, body, outgoing_lsb, crc_out, data, tamper, rec, frames, ignore_unknown, decoder, server>>

NextMessage == Serialize \/ Deserialize

SpecHeartbeat == InitHeartbeat /\ [][NextMessage]_vars

SpecTraffic == InitTraffic /\ [][NextMessage]_vars

(***************************************************************************)
(* Parser: frames are built, joined into one buffer, optionally damaged,   *)
(* and handed to parse_messages (or, one frame alone, to parse_message)    *)
(***************************************************************************)
\* a frame given by its ID bytes and body bytes rather than by a record
Raw(ids, bytes_) == [type |-> "raw", ids |-> ids, body |-> bytes_]

UatPayload(n) == [k \in 1..n |-> (k * 37) % 256]

SampleHeartbeat ==
    [type |-> "HeartbeatMessage",
     gps_position_valid |-> TRUE, maintenance_required |-> FALSE,
     ident_talkback |-> FALSE, self_assigned_address_talkback |-> FALSE,
     gps_battery_low |-> FALSE, RATCS_talkback |-> FALSE,
     UAT_initialized |-> TRUE, CSA_requested |-> FALSE,
     CSA_unavailable |-> FALSE, UTC_timing_valid |-> TRUE,
     timestamp |-> TimeOfDay(32381),
     uplink_messages_count |-> 3, basic_long_messages_count |-> 600]

\* 0x7E7D feet: both body bytes are escaped on the wire
SampleHeight == [type |-> "HeightAboveTerrainMessage", height_above_terrain |-> Some(32381)]

SampleTraffic(cls) ==
    [type |-> cls,
     traffic_alert |-> FALSE, address_type |-> 0, address |-> 11259375,
     latitude |-> 47 * LATLON_UNITS_PER_DEGREE, longitude |-> 2 * LATLON_UNITS_PER_DEGREE,
     pressure_altitude |-> Some(5000), track_type |-> 1, report_extrapolated |-> FALSE,
     airborne |-> TRUE, integrity |-> 8, accuracy |-> 9,
     horizontal_velocity |-> Some(123), vertical_velocity |-> Some(-640), track |-> 45,
     emitter_category |-> 1, callsign |-> Some(<<78, 56, 50, 53, 86>>),
     emergency_priority_code |-> 0]

\* a ForeFlight AHRS body: roll 5.0, pitch -5.0, magnetic heading 9.0,
\* airspeeds 120 and 125
SampleAHRS == Raw(<<FOREFLIGHT_MESSAGE_ID, 1>>, <<0, 50, 255, 206, 128, 90, 0, 120, 0, 125>>)

\* a ForeFlight ID body: version 1, a serial number, names "GDL" and "PALAS", MSL
SampleFFID ==
    Raw(<<FOREFLIGHT_MESSAGE_ID, 0>>,
        <<1>> \o <<0, 0, 0, 0, 0, 0, 48, 57>>
             \o <<71, 68, 76, 32, 32, 32, 32, 32>>
             \o <<80, 65, 76, 65, 83, 32, 32, 32, 32, 32, 32, 32, 32, 32, 32, 32>>
             \o <<1>> \o <<0, 0, 0>>)

\* valid frames of registered types every stream may hold
StreamValidItems == {SampleHeartbeat, SampleHeight, SampleTraffic("OwnshipReportMessage"), SampleAHRS}

\* valid frames of the remaining registered types
ValidItems ==
    StreamValidItems \cup
    {SampleTraffic("TrafficReportMessage"), SampleFFID,
     [type |-> "InitializationMessage", audio_test |-> TRUE, audio_inhibit |-> FALSE,
      CDTI_ok |-> TRUE, CSA_audio_disable |-> FALSE, CSA_disable |-> TRUE],
     [type |-> "OwnshipGeometricAltitudeMessage", geo_altitude |-> 3000,
      vertical_warning_indicator |-> FALSE, vertical_figure_of_merit |-> Some(50)],
     [type |-> "UplinkDataMessage", time_of_reception |-> None, uplink_payload |-> UatPayload(432)],
     [type |-> "BasicUATReportMessage", time_of_reception |-> Some(8000),
      uplink_payload |-> UatPayload(18)],
     [type |-> "LongUATReportMessage", time_of_reception |-> Some(8000),
      uplink_payload |-> UatPayload(34)]}

\* CRC-valid frames whose ID tuple no message type declares
UnknownItems == {Raw(<<1>>, <<0>>), Raw(<<40>>, <<>>), Raw(<<FOREFLIGHT_MESSAGE_ID, 2>>, <<1>>)}

\* CRC-valid frames with a registered ID whose body the decoder rejects:
\* a Heartbeat without a body, a Height Above Terrain of three bytes
UndecodableItems == {Raw(<<0>>, <<>>), Raw(<<9>>, <<0, 100, 0>>)}

\* UAT reports given by their wire bytes: the three time-of-reception bytes
\* (low byte first) 1, 0x7FFFFF, 0x800000, 0xFFFFFE and 0xFFFFFF before a
\* payload of the right size
UatWireItems ==
    {Raw(<<30>>, t \o UatPayload(18)) :
        t \in {<<1, 0, 0>>, <<255, 255, 127>>, <<0, 0, 128>>, <<254, 255, 255>>, <<255, 255, 255>>}}
    \cup {Raw(<<31>>, <<0, 0, 128>> \o UatPayload(34))}

\* CRC-valid frames whose body is shorter than the fixed size of the type: a
\* Heartbeat of 5 bytes, an Initialization of 1, a Height Above Terrain of 1,
\* a Geometric Altitude of 3, a Traffic Report of 26, and basic and long UAT
\* reports whose payload lacks one byte
ShortItems ==
    {Raw(<<0>>, <<129, 1, 16, 0, 8>>), Raw(<<2>>, <<1>>), Raw(<<9>>, <<100>>),
     Raw(<<11>>, <<2, 88, 0>>),
     Raw(<<20>>, SliceTo(tobytes(all_data(SampleTraffic("TrafficReportMessage")).val), 26)),
     Raw(<<30>>, <<1, 0, 0>> \o UatPayload(17)), Raw(<<31>>, <<1, 0, 0>> \o UatPayload(33))}

\* the frame of a valid item with extra bytes after its body
LongItem(item, extra) ==
    IF item.type = "raw" THEN Raw(item.ids, item.body \o extra)
    ELSE Raw(MESSAGE_IDS[item.type], tobytes(all_data(item).val) \o extra)

\* every valid item with one extra byte, and one with two
LongItems ==
    {LongItem(item, <<0>>) : item \in ValidItems} \cup {LongItem(SampleHeight, <<126, 125>>)}

\* the items whose body the decoder of their type rejects: the short bodies
\* that end before a field of the Initialization or Traffic Report layout, and
\* the long ones
RejectedItems ==
    UndecodableItems \cup LongItems \cup {item \in ShortItems : item.ids \in {<<2>>, <<20>>}}

SingleItems ==
    ValidItems \cup UnknownItems \cup UndecodableItems \cup UatWireItems \cup ShortItems
        \cup LongItems

StreamItems == StreamValidItems \cup {Raw(<<1>>, <<0>>), Raw(<<9>>, <<0, 100, 0>>)}

\* bytes a damaged stream gets in place of a CRC byte; never the flag byte,
\* which would move the frame boundaries
StreamTamperBytes == {0, 1, CONTROL_ESCAPE_BYTE, 255}

\* the frame of an item: record.serialize(lsb_first), or build for raw items
Frame(item, lsb_first) ==
    IF item.type = "raw" THEN build(item.ids, BitArrayBytes(item.body), lsb_first)
    ELSE serialize(item, lsb_first).val

RECURSIVE Join(_)
Join(seqs) == IF Len(seqs) = 0 THEN <<>> ELSE seqs[1] \o Join(Tail(seqs))

\* 0-based offset in the buffer of the first byte of frame i
RECURSIVE Offset(_, _)
Offset(fs, i) == IF i = 1 THEN 0 ELSE Offset(fs, i - 1) + Len(fs[i - 1])

\* the bytes of the buffer at the place of frame i
DataFrame(i) == SubSeq(data, Offset(frames, i) + 1, Offset(frames, i) + Len(frames[i]))

InitParser ==
    /\ pc = "items"
    /\ rec \in ([1..1 -> SingleItems] \cup
                UNION {[1..k -> StreamItems] : k \in 2..MaxFrames})
    /\ outgoing_lsb \in BOOLEAN
    /\ ignore_unknown \in BOOLEAN
    /\ message_ids = <<>>
    /\ body = <<>>
    /\ crc_out = <<>>
    /\ data = <<>>
    /\ tamper = "none"
    /\ result = NoResult
    /\ frames = <<>>
    /\ decoder = "none"
    /\ server = NoServer

\* every item is framed in the same bit order and the frames are concatenated
BuildStream ==
    /\ pc = "items"
    /\ frames' = [i \in 1..Len(rec) |-> Frame(rec[i], outgoing_lsb)]
    /\ data' = Join(frames')
    /\ pc' = "stream"
    /\ UNCHANGED <<message_ids, body, outgoing_lsb, crc_out, tamper, result, rec, ignore_unknown, decoder, server>>

\* the last CRC byte of one frame of the buffer is replaced
CorruptFrame ==
    /\ pc = "stream"
    /\ tamper = "none"
    /\ \E i \in 1..Len(frames), b \in StreamTamperBytes :
          LET at == Offset(frames, i) + Len(frames[i]) - 1
          IN  /\ b # data[at]
              /\ data' = [data EXCEPT ![at] = b]
    /\ tamper' = "crc"
    /\ UNCHANGED <<pc, message_ids, body, outgoing_lsb, crc_out, result, rec, frames, ignore_unknown, decoder, server>>

\* parse_messages(data, incoming_msb = not outgoing_lsb, ignore_unknown)
ParseMessages ==
    /\ pc = "stream"
    /\ result' = parse_messages(data, ~outgoing_lsb, ignore_unknown)
    /\ pc' = "parsed_all"
    /\ UNCHANGED <<message_ids, body, outgoing_lsb, crc_out, data, tamper, rec, frames, ignore_unknown, decoder, server>>

\* parse_message(data, incoming_msb = not outgoing_lsb, ignore_unknown) on a
\* buffer that holds one frame
ParseMessage ==
    /\ pc = "stream"
    /\ Len(frames) = 1
    /\ result' = parse_message(data, ~outgoing_lsb, ignore_unknown)
    /\ pc' = "parsed_one"
    /\ UNCHANGED <<message_ids, body, outgoing_lsb, crc_out, data, tamper, rec, frames, ignore_unknown, decoder, server>>

\* c.deserialize(data, incoming_msb = not outgoing_lsb) for a message class c
\* chosen by the caller, on a buffer that holds one frame
DeserializeAs ==
    /\ pc = "stream"
    /\ Len(frames) = 1
    /\ \E c \in DOMAIN MESSAGE_IDS :
          /\ decoder' = c
          /\ result' = deserialize(c, data, ~outgoing_lsb)
    /\ pc' = "decoded_as"
    /\ UNCHANGED <<message_ids, body, outgoing_lsb, crc_out, data, tamper, rec, frames, ignore_unknown, server>>

\* the caller takes the frame apart itself:
\* message_ids, body = deconstruct(data, incoming_msb = not outgoing_lsb)
ExtractBody ==
    /\ pc = "stream"
    /\ Len(frames) = 1
    /\ \E d \in {deconstruct(data, ~outgoing_lsb)} :
          /\ Returned(d)
          /\ message_ids' = d.val[1]
          /\ body' = d.val[2]
    /\ pc' = "extracted"
    /\ UNCHANGED <<outgoing_lsb, crc_out, data, tamper, result, rec, frames, ignore_unknown, decoder, server>>

\* c.deserialize(body) on the extracted BitArray, for a message class c chosen
\* by the caller, and then once more on the same BitArray object: _clean_data
\* returns the BitArray itself and every pop_bits deletes from it
DeserializeBits ==
    /\ pc \in {"extracted", "decoded_bits"}
    /\ \E c \in DOMAIN MESSAGE_IDS :
          /\ pc = "decoded_bits" => c = decoder
          /\ decoder' = c
          /\ result' = deserialize_data(c, body)
          /\ body' = SliceFrom(body, popped(c, body))
    /\ pc' = IF pc = "extracted" THEN "decoded_bits" ELSE "decoded_twice"
    /\ UNCHANGED <<message_ids, outgoing_lsb, crc_out, data, tamper, rec, frames, ignore_unknown, server>>

\* parse_message(data) on a frame that serialize() built, every bit-order
\* argument at its default: outgoing_lsb = True, incoming_msb = True,
\* ignore_unknown = False
ParseMessageDefaults ==
    /\ pc = "stream"
    /\ Len(frames) = 1
    /\ outgoing_lsb
    /\ ~ignore_unknown
    /\ result' = parse_message(data, TRUE, FALSE)
    /\ pc' = "parsed_defaults"
    /\ UNCHANGED <<message_ids, body, outgoing_lsb, crc_out, data, tamper, rec, frames, ignore_unknown, decoder, server>>

NextParser ==
    \/ BuildStream \/ CorruptFrame \/ ParseMessages \/ ParseMessage \/ DeserializeAs
    \/ ExtractBody \/ DeserializeBits \/ ParseMessageDefaults

SpecParser == InitParser /\ [][NextParser]_vars

(***************************************************************************)
(* Fields: one field encoder is applied to a record that holds the field,  *)
(* then the field's decoder to the bits written                            *)
(***************************************************************************)
\* a record that holds the optional field f (and what its encoder reads)
Field(f, value) == [type |-> "field", field |-> f, value |-> value]

\* the field's value in a record made by Field; a serial number is held as
\* its binary digits
FieldValue(self) ==
    IF self.field = "device_serial_number" THEN self.digits ELSE self.value

\* a call of the generic encoder: _serialize_uint or _serialize_int
Generic(f, value, bits, constrain) ==
    [type |-> "field", field |-> f, value |-> value, bits |-> bits, constrain |-> constrain]

\* the binary digits of 12345 and of 2^64
SampleSerialNumbers ==
    {BitArrayUint(12345, 14), DEVICE_SERIAL_NUMBER_INVALID_VALUE,
     [k \in 1..(DEVICE_SERIAL_NUMBER_BITS + 1) |-> IF k = 1 THEN 1 ELSE 0]}

\* values around the bounds, the sentinels and the clamps of every field;
\* roll, pitch and heading in tenths of a degree (all of them values v for
\* which the float quotient (v / 10) / (1 / 10) is exactly v)
SampleFieldValues ==
    [height_above_terrain |-> {-40000, -32768, -32767, -1, 0, 1000, 32767, 32768, 40000},
     pressure_altitude |-> {-1025, -1000, 0, 5000, 101350, 101351, 101375, 200000},
     horizontal_velocity |-> {-1, 0, 123, 4094, 4095, 5000},
     vertical_velocity |-> {-131072, -40000, -32577, -32576, -640, -100, 0, 63, 32576, 32577, 32640,
                            40000},
     time_of_reception |-> {-1, 0, 80, 8000, 100000000, 100000001},
     vertical_figure_of_merit |-> {-1, 0, 50, 32766, 32767, 40000},
     roll |-> {-1801, -1800, -50, -1, 0, 50, 1800, 1801},
     pitch |-> {-1801, -1800, -50, -1, 0, 50, 1800, 1801},
     indicated_airspeed |-> {-32768, -1, 0, 120, 32767, 32768, 65535},
     true_airspeed |-> {-32768, -1, 0, 120, 32767, 32768, 65535}]

SampleHeadings == {-3601, -3600, -1, 0, 90, 3600, 3601}

\* values of the fields that are never None (held as Some(v) like the others):
\* multiples of the resolution and values between them on both sides of zero,
\* the ends of the ranges, and values the width cannot hold; latitude and
\* longitude in units of 2^-21 degree
SampleRequiredFieldValues ==
    [geo_altitude |-> {-200000, -163840, -3004, -7, -5, -1, 0, 4, 3000, 3004, 163835, 163840, 200000},
     latitude |-> {LATITUDE_MIN * LATLON_UNITS_PER_DEGREE, -100, -45, -1, 0, 44, 100,
                   47 * LATLON_UNITS_PER_DEGREE, LATITUDE_MAX * LATLON_UNITS_PER_DEGREE},
     longitude |-> {LONGITUDE_MIN * LATLON_UNITS_PER_DEGREE, -100, -45, -1, 0, 44, 100,
                    2 * LATLON_UNITS_PER_DEGREE, LONGITUDE_MAX * LATLON_UNITS_PER_DEGREE},
     track |-> {-1, 0, 1, 2, 45, 90, 358, 359, 360, 400},
     address |-> {-1, 0, 11259375, 16777215, 16777216}]

FieldRecords ==
    {Field(f, v) : f \in DOMAIN SampleFieldValues, v \in {None}} \cup
    UNION {{Field(f, Some(v)) : v \in SampleFieldValues[f]} : f \in DOMAIN SampleFieldValues} \cup
    {[type |-> "field", field |-> "device_serial_number", digits |-> v] :
        v \in {None} \cup {Some(n) : n \in SampleSerialNumbers}} \cup
    {[type |-> "field", field |-> "heading", value |-> v, is_magnetic_heading |-> m] :
        v \in {None} \cup {Some(h) : h \in SampleHeadings},
        m \in {None, Some(FALSE), Some(TRUE)}} \cup
    {Generic(f, v, w, c) : f \in {"uint", "int"}, v \in {-300, -129, -128, -1, 0, 1, 127, 128, 255, 256, 300},
                           w \in {1, 8}, c \in BOOLEAN} \cup
    UNION {{Field(f, Some(v)) : v \in SampleRequiredFieldValues[f]} :
              f \in DOMAIN SampleRequiredFieldValues}

\* self._serialize_<field>() on a record self that holds the field
serialize_field(self) ==
    CASE self.field = "height_above_terrain" ->
            _serialize_height_above_terrain([height_above_terrain |-> self.value])
      [] self.field = "pressure_altitude" ->
            _serialize_pressure_altitude([pressure_altitude |-> self.value])
      [] self.field = "horizontal_velocity" ->
            _serialize_horizontal_velocity([horizontal_velocity |-> self.value])
      [] self.field = "vertical_velocity" ->
            _serialize_vertical_velocity([vertical_velocity |-> self.value])
      [] self.field = "time_of_reception" ->
            _serialize_time_of_reception([time_of_reception |-> self.value])
      [] self.field = "device_serial_number" ->
            _serialize_device_serial_number([device_serial_number |-> self.digits])
      [] self.field = "vertical_figure_of_merit" ->
            _serialize_vertical_figure_of_merit([vertical_figure_of_merit |-> self.value])
      [] self.field = "roll" -> _serialize_roll([roll |-> self.value])
      [] self.field = "pitch" -> _serialize_pitch([pitch |-> self.value])
      [] self.field = "heading" ->
            _serialize_heading([heading |-> self.value,
                                is_magnetic_heading |-> self.is_magnetic_heading])
      [] self.field = "indicated_airspeed" ->
            _serialize_indicated_airspeed([indicated_airspeed |-> self.value])
      [] self.field = "true_airspeed" ->
            _serialize_true_airspeed([true_airspeed |-> self.value])
      [] self.field = "geo_altitude" -> _serialize_geo_altitude([geo_altitude |-> self.value.v])
      [] self.field = "latitude" ->
            _serialize_latitude([latitude |-> self.value.v, integrity |-> 8])
      [] self.field = "longitude" ->
            _serialize_longitude([longitude |-> self.value.v, integrity |-> 8])
      [] self.field = "track" -> _serialize_track([track |-> self.value.v])
      [] self.field = "address" -> _serialize_address([address |-> self.value.v])
      [] self.field = "uint" -> _serialize_uint(self.value, self.bits, self.constrain)
      [] self.field = "int" -> _serialize_int(self.value, self.bits, self.constrain)

\* cls._deserialize_<field>(bits)
deserialize_field(field, bits) ==
    CASE field = "height_above_terrain" -> _deserialize_height_above_terrain(bits)
      [] field = "pressure_altitude" -> _deserialize_pressure_altitude(bits)
      [] field = "horizontal_velocity" -> _deserialize_horizontal_velocity(bits)
      [] field = "vertical_velocity" -> _deserialize_vertical_velocity(bits)
      [] field = "time_of_reception" -> _deserialize_time_of_reception(bits)
      [] field = "device_serial_number" -> _deserialize_device_serial_number(bits)
      [] field = "vertical_figure_of_merit" -> _deserialize_vertical_figure_of_merit(bits)
      [] field \in {"roll", "pitch"} -> _deserialize_roll(bits)
      [] field = "heading" -> _deserialize_heading(bits)
      [] field \in {"indicated_airspeed", "true_airspeed"} -> _deserialize_indicated_airspeed(bits)
      [] field = "geo_altitude" -> _deserialize_resolution_int(bits, GEO_ALTITUDE_RESOLUTION)
      [] field \in {"latitude", "longitude"} ->
            _deserialize_resolution_float(bits, LATLON_RESOLUTION)
      [] field = "track" -> _deserialize_track(bits)
      [] field = "address" -> _deserialize_uint(bits)
      [] field = "uint" -> _deserialize_uint(bits)
      [] field = "int" -> _deserialize_int(bits)

InitField ==
    /\ pc = "field"
    /\ rec \in FieldRecords
    /\ outgoing_lsb = FALSE
    /\ message_ids = <<>>
    /\ body = <<>>
    /\ crc_out = <<>>
    /\ data = <<>>
    /\ tamper = "none"
    /\ result = NoResult
    /\ frames = <<>>
    /\ ignore_unknown = FALSE
    /\ decoder = "none"
    /\ server = NoServer

\* the field's encoder writes its bits, or raises
SerializeField ==
    /\ pc = "field"
    /\ LET out == serialize_field(rec)
       IN  IF Raised(out)
           THEN /\ result' = out
                /\ pc' = "failed"
                /\ UNCHANGED body
           ELSE /\ body' = out.val
                /\ pc' = "encoded"
                /\ UNCHANGED result
    /\ UNCHANGED <<message_ids, outgoing_lsb, crc_out, data, tamper, rec, frames, ignore_unknown, decoder, server>>

\* the field's decoder reads the bits that were written
DeserializeField ==
    /\ pc = "encoded"
    /\ result' = deserialize_field(rec.field, body)
    /\ pc' = "decoded"
    /\ UNCHANGED <<message_ids, body, outgoing_lsb, crc_out, data, tamper, rec, frames, ignore_unknown, decoder, server>>

\* the record self with its field replaced by the value the decoder returned:
\* the AHRS decoders return whole degrees and the heading decoder a pair
decoded_field(self, value) ==
    CASE self.field \in {"roll", "pitch"} ->
            [self EXCEPT !.value = IF value.some THEN Some(value.v * AHRS_UNITS_PER_DEGREE)
                                   ELSE None]
      [] self.field = "heading" ->
            [self EXCEPT !.value = IF value[2].some
                                   THEN Some(value[2].v * AHRS_UNITS_PER_DEGREE) ELSE None,
                         !.is_magnetic_heading = value[1]]
      [] self.field = "device_serial_number" -> [self EXCEPT !.digits = value]
      [] self.field \in {"uint", "int"} -> [self EXCEPT !.value = value]
      [] self.field \in DOMAIN SampleRequiredFieldValues -> [self EXCEPT !.value = Some(value)]
      [] OTHER -> [self EXCEPT !.value = value]

\* the field's encoder is called on the decoded value; data holds its bits
ReserializeField ==
    /\ pc = "decoded"
    /\ Returned(result)
    /\ LET out == serialize_field(decoded_field(rec, result.val))
       IN  IF Raised(out)
           THEN /\ pc' = "refailed"
                /\ UNCHANGED data
           ELSE /\ data' = out.val
                /\ pc' = "reencoded"
    /\ UNCHANGED <<message_ids, body, outgoing_lsb, crc_out, tamper, result, rec, frames, ignore_unknown, decoder, server>>

NextField == SerializeField \/ DeserializeField \/ ReserializeField

SpecField == InitField /\ [][NextField]_vars

(***************************************************************************)
(* src/GDL90TCPServer.py: the broadcaster.  frames holds what sendall has  *)
(* put on the current connection, rec the rows of the last fetchall,       *)
(* result the exception that ended handle_client, and server the rest:     *)
(* accepted connections, whether the module's cursor is closed, the        *)
(* cycles begun on the connection, the index of the next row of the for    *)
(* loop, and the length of frames when the current cycle began.  An        *)
(* operator's KeyboardInterrupt is not modelled.                           *)
(***************************************************************************)
MaxConnections == 2
MaxCycles == 2
MaxRows == 2

\* binascii.hexlify(bytes).decode("utf-8"): two lower-case hex digits a byte
hexlify(bytes_) ==
    [k \in 1..(2 * Len(bytes_)) |->
        LET n == IF k % 2 = 1 THEN bytes_[(k + 1) \div 2] \div 16 ELSE bytes_[k \div 2] % 16
        IN  IF n < 10 THEN 48 + n ELSE 87 + n]

\* binascii.unhexlify(str)
unhexlify(str) ==
    LET value(c) == IF c < 58 THEN c - 48 ELSE IF c < 71 THEN c - 55 ELSE c - 87
    IN  [k \in 1..(Len(str) \div 2) |-> 16 * value(str[2 * k - 1]) + value(str[2 * k])]

\* int(address, 16)
RECURSIVE int16(_)
int16(str) ==
    IF Len(str) = 0 THEN 0
    ELSE LET c == str[Len(str)]
         IN  16 * int16(SubSeq(str, 1, Len(str) - 1))
                + (IF c < 58 THEN c - 48 ELSE IF c < 71 THEN c - 55 ELSE c - 87)

\* getHeartbeatMessage() when getNow() returns now
getHeartbeatMessage(now) ==
    LET hb == [type |-> "HeartbeatMessage",
               gps_position_valid |-> TRUE, maintenance_required |-> FALSE,
               ident_talkback |-> TRUE, self_assigned_address_talkback |-> FALSE,
               gps_battery_low |-> TRUE, RATCS_talkback |-> FALSE,
               UAT_initialized |-> TRUE, CSA_requested |-> FALSE,
               CSA_unavailable |-> TRUE, UTC_timing_valid |-> FALSE,
               timestamp |-> Time(now.hour, now.min, now.sec),
               uplink_messages_count |-> 234, basic_long_messages_count |-> 678]
        out == serialize(hb, FALSE)
    IN  IF Raised(out) THEN out ELSE Return(hexlify(out.val))

\* getTrafficReportMessage(acft[0], ..., acft[9]) for a row acft of the table
getTrafficReportMessage(acft) ==
    LET tr == [type |-> "TrafficReportMessage",
               traffic_alert |-> TRUE, address_type |-> 0, address |-> int16(acft.address),
               latitude |-> acft.latitude, longitude |-> acft.longitude,
               pressure_altitude |-> acft.altitude, track_type |-> 1,
               report_extrapolated |-> FALSE, airborne |-> TRUE,
               integrity |-> 10, accuracy |-> 9,
               horizontal_velocity |-> acft.hspeed, vertical_velocity |-> acft.vspeed,
               track |-> acft.track, emitter_category |-> 1, callsign |-> acft.callsign,
               emergency_priority_code |-> 0]
        out == serialize(tr, FALSE)
    IN  IF Raised(out) THEN out ELSE Return(hexlify(out.val))

\* what getNow() returns: midnight and the last second of the day
SampleNow == {[hour |-> 0, min |-> 0, sec |-> 0], [hour |-> 23, min |-> 59, sec |-> 59]}

\* rows of acft_position: N825V, an OGN device name of nine characters, and
\* a registration written with its hyphen
SampleRows ==
    {[callsign |-> Some(<<78, 56, 50, 53, 86>>), address_type |-> 0,
      address |-> <<65, 66, 67, 68, 69, 70>>, category |-> 0,
      latitude |-> 47 * LATLON_UNITS_PER_DEGREE, longitude |-> 2 * LATLON_UNITS_PER_DEGREE,
      altitude |-> Some(5000), hspeed |-> Some(123), vspeed |-> Some(64), track |-> 45],
     [callsign |-> Some(<<70, 76, 82, 68, 68, 65, 53, 66, 65>>), address_type |-> 2,
      address |-> <<68, 68, 65, 53, 66, 65>>, category |-> 1,
      latitude |-> 48 * LATLON_UNITS_PER_DEGREE, longitude |-> -100,
      altitude |-> Some(1200), hspeed |-> Some(60), vspeed |-> Some(-640), track |-> 270],
     [callsign |-> Some(<<70, 45, 71, 75, 88, 89>>), address_type |-> 0,
      address |-> <<51, 57, 52, 97, 48, 49>>, category |-> 0,
      latitude |-> 47 * LATLON_UNITS_PER_DEGREE, longitude |-> 2 * LATLON_UNITS_PER_DEGREE,
      altitude |-> Some(3000), hspeed |-> Some(100), vspeed |-> Some(0), track |-> 90]}

\* what cur.fetchall() may return
TrafficTables == UNION {[1..k -> SampleRows] : k \in 0..MaxRows}

\* the exceptions handle_client logs; every other one leaves start_server too
CaughtErrors == {"ConnectionError", "struct.error"}

InitServer ==
    /\ pc = "accept"
    /\ server = [accepted |-> 0, cur_closed |-> FALSE, cycles |-> 0, next |-> 1,
                 cycle_start |-> 0]
    /\ frames = <<>>
    /\ rec = <<>>
    /\ result = NoResult
    /\ message_ids = <<>>
    /\ body = <<>>
    /\ outgoing_lsb = FALSE
    /\ crc_out = <<>>
    /\ data = <<>>
    /\ tamper = "none"
    /\ ignore_unknown = FALSE
    /\ decoder = "none"

\* start_server: conn, addr = server_socket.accept(); handle_client(conn, addr)
Accept ==
    /\ pc = "accept"
    /\ server.accepted < MaxConnections
    /\ pc' = "heartbeat"
    /\ server' = [server EXCEPT !.accepted = @ + 1, !.cycles = 0, !.next = 1,
                                !.cycle_start = 0]
    /\ frames' = <<>>
    /\ rec' = <<>>
    /\ result' = NoResult
    /\ UNCHANGED <<message_ids, body, outgoing_lsb, crc_out, data, tamper, ignore_unknown, decoder>>

\* an exception inside the while loop of handle_client: the finally block
\* closes conn, cur and dbconn; a caught one returns to accept in start_server
handle_client_raises(exc) ==
    /\ result' = Raise(exc)
    /\ pc' = IF exc \in CaughtErrors THEN "accept" ELSE "exited"
    /\ server' = [server EXCEPT !.cur_closed = TRUE]
    /\ UNCHANGED <<frames, rec, data>>

\* conn.sendall(binascii.unhexlify(getHeartbeatMessage())); sendall fails
\* when the peer is gone
SendHeartbeat ==
    /\ pc = "heartbeat"
    /\ \E now \in SampleNow, sent \in BOOLEAN :
          \E msg \in {getHeartbeatMessage(now)} :
             IF Raised(msg) THEN handle_client_raises(msg.exc)
             ELSE IF ~sent THEN handle_client_raises("ConnectionError")
             ELSE /\ server.cycles < MaxCycles
                  /\ data' = unhexlify(msg.val)
                  /\ frames' = Append(frames, data')
                  /\ server' = [server EXCEPT !.cycles = @ + 1, !.cycle_start = Len(frames)]
                  /\ pc' = "execute"
                  /\ UNCHANGED <<rec, result>>
    /\ UNCHANGED <<message_ids, body, outgoing_lsb, crc_out, tamper, ignore_unknown, decoder>>

\* cur.execute(SELECT ...) and cur.fetchall(); a closed cursor raises
\* psycopg2.InterfaceError
Execute ==
    /\ pc = "execute"
    /\ IF server.cur_closed THEN handle_client_raises("InterfaceError")
       ELSE /\ rec' \in TrafficTables
            /\ server' = [server EXCEPT !.next = 1]
            /\ pc' = "acft"
            /\ UNCHANGED <<frames, result, data>>
    /\ UNCHANGED <<message_ids, body, outgoing_lsb, crc_out, tamper, ignore_unknown, decoder>>

\* one pass of the for loop:
\* conn.sendall(binascii.unhexlify(getTrafficReportMessage(acft[0], ...)))
SendTraffic ==
    /\ pc = "acft"
    /\ server.next <= Len(rec)
    /\ \E sent \in BOOLEAN :
          \E msg \in {getTrafficReportMessage(rec[server.next])} :
             IF Raised(msg) THEN handle_client_raises(msg.exc)
             ELSE IF ~sent THEN handle_client_raises("ConnectionError")
             ELSE /\ data' = unhexlify(msg.val)
                  /\ frames' = Append(frames, data')
                  /\ server' = [server EXCEPT !.next = @ + 1]
                  /\ UNCHANGED <<pc, rec, result>>
    /\ UNCHANGED <<message_ids, body, outgoing_lsb, crc_out, tamper, ignore_unknown, decoder>>

\* the for loop is over: time.sleep(1), and the while loop starts again
Sleep ==
    /\ pc = "acft"
    /\ server.next > Len(rec)
    /\ pc' = "heartbeat"
    /\ UNCHANGED <<message_ids, body, outgoing_lsb, crc_out, data, tamper, result, rec, frames,
                   ignore_unknown, decoder, server>>

NextServer == Accept \/ SendHeartbeat \/ Execute \/ SendTraffic \/ Sleep

SpecServer == InitServer /\ [][NextServer]_vars

(***************************************************************************)
(* Reference definitions the framing claims are stated against             *)
(***************************************************************************)
\* remainder of the message, read as a polynomial over GF(2) most significant
\* bit first, modulo x^16 + x^12 + x^5 + 1 (0x11021), no augmentation
PolyShift(r, bit) ==
    LET shifted == (2 * r) + bit
    IN  IF shifted >= 65536 THEN BitXor(shifted, 69665) ELSE shifted

RECURSIVE PolyRange(_, _, _, _)
PolyRange(bits, lo, hi, r) ==
    IF lo > hi THEN r
    ELSE IF lo = hi THEN PolyShift(r, bits[lo])
    ELSE LET mid == (lo + hi) \div 2
         IN  CHOOSE v \in {PolyRange(bits, mid + 1, hi, left) :
                               left \in {PolyRange(bits, lo, mid, r)}} : TRUE

PolyRemainder(bits, r) == PolyRange(bits, 1, Len(bits), r)

\* CRC-16-CCITT, initial value 0, no reflection: the remainder of the message
\* augmented with sixteen zero bits
CcittCrc(bytes_) == PolyRemainder(BitArrayBytes(bytes_ \o <<0, 0>>), 0)

\* the bytes of a frame strictly between its first and last byte
Inner(frame) == SliceTo(SliceFrom(frame, 1), Len(frame) - 2)

\* C1: a frame built from a registry ID tuple and a whole-byte body, in either
\* bit order, deconstructs (incoming_msb = not lsb) to exactly (ids, body)
C1_FramingRoundTrip ==
    (pc = "done" /\ tamper = "none") => result = Return(<<message_ids, body>>)

C1_Witness ==
    /\ pc = "done" /\ tamper = "none" /\ outgoing_lsb
    /\ message_ids = MESSAGE_IDS.ForeFlightAHRSMessage
    /\ tobytes(body) = <<CONTROL_ESCAPE_BYTE, FLAG_BYTE>>
    /\ result = Return(<<message_ids, body>>)

\* C4: in a frame built with lsb = false no inner byte is 0x7E and every inner
\* 0x7D is followed, before the closing flag, by 0x5E or 0x5D; CRC bytes included
C4_FrameInvariant ==
    (pc = "built" /\ ~outgoing_lsb) =>
        /\ data[1] = FLAG_BYTE /\ data[Len(data)] = FLAG_BYTE
        /\ \A i \in 1..Len(Inner(data)) :
              /\ Inner(data)[i] # FLAG_BYTE
              /\ Inner(data)[i] = CONTROL_ESCAPE_BYTE =>
                    /\ i < Len(Inner(data))
                    /\ Inner(data)[i + 1] \in {94, 93}

\* a frame whose CRC holds a flag byte and an escape byte, both stuffed
C4_Witness ==
    /\ pc = "built" /\ ~outgoing_lsb
    /\ \E j \in 1..2 : crc_out[j] \in {FLAG_BYTE, CONTROL_ESCAPE_BYTE}
    /\ Len(data) > Len(message_ids) + Len(tobytes(body)) + 4
    /\ data[Len(data) - 1] \in {94, 93}

\* C5 as stated: compute_crc is CRC-16-CCITT with the update rule
\* crc = table[(crc >> 8) XOR byte] XOR ((crc << 8) & 0xFFFF), low byte first
C5_Original ==
    pc = "built" =>
        LET crc == CcittCrc(message_ids \o tobytes(body))
        IN  crc_out = <<crc % 256, crc \div 256>>

\* C5 amended: compute_crc is the GDL 90 frame check sequence: polynomial
\* 0x1021, initial value 0, no reflection, update rule
\* crc = table[crc >> 8] XOR ((crc << 8) & 0xFFFF) XOR byte, which is the
\* remainder of the unaugmented message; returned low byte first
C5_ComputeCrc ==
    pc = "built" =>
        LET crc == PolyRemainder(BitArrayBytes(message_ids \o tobytes(body)), 0)
        IN  crc_out = <<crc % 256, crc \div 256>>

C5_Witness ==
    /\ pc = "built"
    /\ Len(message_ids \o tobytes(body)) = 4
    /\ crc_out[1] # 0 /\ crc_out[2] # 0
    /\ crc_out = compute_crc(message_ids \o tobytes(body))

\* C6: deconstruct fails with MissingFlagBytes whenever the first byte or the
\* last byte of its input is not 0x7E
C6_MissingFlagEither ==
    (pc = "done" /\ (data[1] # FLAG_BYTE \/ data[Len(data)] # FLAG_BYTE)) =>
        result = Raise("MissingFlagBytes")

\* C7: replacing the last CRC byte of a frame built with lsb = false by any
\* other byte makes deconstruct fail with InvalidCRC
C7_CorruptCrcInvalidCRC ==
    (pc = "done" /\ tamper = "crc" /\ ~outgoing_lsb) => result = Raise("InvalidCRC")

\* C2: traffic_alert of a Traffic Report or Ownship Report survives the round
\* trip, for TRUE as well as for FALSE and in both bit orders
C2_TrafficAlertRoundTrip ==
    (pc = "done" /\ rec.type \in {"OwnshipReportMessage", "TrafficReportMessage"}) =>
        /\ Returned(result)
        /\ result.val.traffic_alert = rec.traffic_alert

\* C3: a Heartbeat with a whole-second UTC time of day, counts in range and any
\* combination of the ten booleans deserializes to itself in both bit orders
C3_HeartbeatRoundTrip ==
    (pc = "done" /\ rec.type = "HeartbeatMessage") => result = Return(rec)

C3_Witness ==
    /\ pc = "done" /\ rec.type = "HeartbeatMessage" /\ outgoing_lsb
    /\ rec.timestamp = Time(23, 59, 59)
    /\ rec.gps_position_valid /\ ~rec.maintenance_required /\ rec.UTC_timing_valid
    /\ rec.basic_long_messages_count = 1023
    /\ result = Return(rec)

(***************************************************************************)
(* Reference definitions the parser claims are stated against              *)
(***************************************************************************)
\* the registry as the documentation lists it: ID tuple -> message type
RegisteredType ==
    (<<0>> :> "HeartbeatMessage") @@ (<<2>> :> "InitializationMessage")
    @@ (<<7>> :> "UplinkDataMessage") @@ (<<9>> :> "HeightAboveTerrainMessage")
    @@ (<<10>> :> "OwnshipReportMessage") @@ (<<11>> :> "OwnshipGeometricAltitudeMessage")
    @@ (<<20>> :> "TrafficReportMessage") @@ (<<30>> :> "BasicUATReportMessage")
    @@ (<<31>> :> "LongUATReportMessage") @@ (<<101, 0>> :> "ForeFlightIDMessage")
    @@ (<<101, 1>> :> "ForeFlightAHRSMessage")

ItemIds(item) == IF item.type = "raw" THEN item.ids ELSE MESSAGE_IDS[item.type]

ItemBody(item) == IF item.type = "raw" THEN BitArrayBytes(item.body) ELSE all_data(item).val

\* the subsequence of the values of outs at the indices in keep, in order
RECURSIVE Kept(_, _, _)
Kept(outs, keep, n) ==
    IF n = 0 THEN <<>>
    ELSE IF n \in keep THEN Append(Kept(outs, keep, n - 1), outs[n].val)
    ELSE Kept(outs, keep, n - 1)

\* C8: parse_messages on the concatenation of k valid frames of registered
\* types, all in one bit order and parsed with incoming_msb = not lsb, returns
\* k records in the order of the frames, each of its frame's type and equal to
\* what parse_message returns for that frame alone
C8_ParseMessagesConcatenation ==
    (pc = "parsed_all" /\ tamper = "none" /\ \A i \in 1..Len(rec) : rec[i] \in ValidItems) =>
        /\ Returned(result)
        /\ Len(result.val) = Len(rec)
        /\ \A i \in 1..Len(rec) :
              /\ parse_message(frames[i], ~outgoing_lsb, ignore_unknown) = Return(result.val[i])
              /\ result.val[i].type = RegisteredType[ItemIds(rec[i])]

\* two frames, least significant bit first, the first with escaped body bytes
C8_Witness ==
    /\ pc = "parsed_all" /\ tamper = "none" /\ outgoing_lsb
    /\ rec = <<SampleHeight, SampleTraffic("OwnshipReportMessage")>>
    /\ Returned(result)
    /\ Len(result.val) = 2
    /\ result.val[1] = SampleHeight
    /\ result.val[2].type = "OwnshipReportMessage"

\* C9 as stated: on a CRC-valid frame parse_message returns None (ignore_unknown)
\* or fails with UnknownMessageID when the ID tuple is not registered, and
\* returns a record of the registered type when it is
C9_Original ==
    (pc = "parsed_one" /\ tamper = "none") =>
        IF ItemIds(rec[1]) \notin DOMAIN RegisteredType
        THEN result = (IF ignore_unknown THEN Return(None) ELSE Raise("UnkownMessageID"))
        ELSE /\ Returned(result)
             /\ result.val # None
             /\ result.val.type = RegisteredType[ItemIds(rec[1])]

\* C9 amended: for a registered ID tuple parse_message hands the body to the
\* decoder of the registered type: it returns that decoder's record, of exactly
\* that type, or fails with that decoder's failure when the body does not decode
C9_ParseMessageDispatch ==
    (pc = "parsed_one" /\ tamper = "none") =>
        IF ItemIds(rec[1]) \notin DOMAIN RegisteredType
        THEN result = (IF ignore_unknown THEN Return(None) ELSE Raise("UnkownMessageID"))
        ELSE /\ result = deserialize_data(RegisteredType[ItemIds(rec[1])], ItemBody(rec[1]))
             /\ result # Return(None)
             /\ result.exc # "UnkownMessageID"
             /\ Returned(result) => result.val.type = RegisteredType[ItemIds(rec[1])]
             /\ rec[1] \in ValidItems => Returned(result)

C9_Witness ==
    /\ pc = "parsed_one" /\ tamper = "none"
    /\ rec[1] = SampleAHRS
    /\ Returned(result)
    /\ result.val.type = "ForeFlightAHRSMessage"
    /\ result.val.heading = Some(9)

\* C10: with ignore_unknown set, parse_messages skips the frames whose ID tuple
\* is not registered and returns the records of the others in order; a frame
\* that fails in any other way (a damaged CRC, a body the decoder rejects)
\* makes the whole call fail
C10_IgnoreUnknownOnly ==
    (pc = "parsed_all" /\ ignore_unknown) =>
        LET n == Len(rec)
            alone == [i \in 1..n |-> parse_message(DataFrame(i), ~outgoing_lsb, FALSE)]
            unknown == {i \in 1..n : ItemIds(rec[i]) \notin DOMAIN RegisteredType}
            failing == {i \in 1..n : \/ DataFrame(i) # frames[i]
                                     \/ rec[i] \in RejectedItems}
        IN  IF failing # {}
            THEN /\ Raised(result)
                 /\ \E i \in failing : result = alone[i]
            ELSE result = Return(Kept(alone, (1..n) \ unknown, n))

\* an unknown frame followed by a valid one: one record comes back
C10_Witness ==
    /\ pc = "parsed_all" /\ ignore_unknown /\ tamper = "none"
    /\ rec = <<Raw(<<1>>, <<0>>), SampleHeartbeat>>
    /\ result = Return(<<SampleHeartbeat>>)

\* C11: a message class's deserialize, given a CRC-valid frame whose ID tuple
\* is not the class's MESSAGE_IDS, fails with InvalidMessageID and returns no
\* record, also when the frame's type has the same body layout as the class
C11_InvalidMessageID ==
    (pc = "decoded_as" /\ tamper = "none" /\ ItemIds(rec[1]) # MESSAGE_IDS[decoder]) =>
        result = Raise("InvalidMessageID")

\* a Basic UAT frame given to the Long UAT decoder
C11_Witness ==
    /\ pc = "decoded_as" /\ tamper = "none"
    /\ rec[1].type = "BasicUATReportMessage"
    /\ decoder = "LongUATReportMessage"
    /\ result = Raise("InvalidMessageID")

(***************************************************************************)
(* Reference definitions the field claims are stated against               *)
(***************************************************************************)
\* the optional numeric fields
OptionalFields ==
    {"height_above_terrain", "pressure_altitude", "horizontal_velocity", "vertical_velocity",
     "time_of_reception", "device_serial_number", "vertical_figure_of_merit", "roll", "pitch",
     "heading", "indicated_airspeed", "true_airspeed"}

\* the documented sentinel of every optional field, in the field's declared
\* width: 0x8000, 0xFFF, 0xFFF, 0x800, 0xFFFFFF, 0xFFFFFFFFFFFFFFFF, 0x7FFF,
\* 0x7FFF, 0x7FFF, 0xFFFF, 0xFFFF, 0xFFFF
SentinelBits ==
    [height_above_terrain |-> <<1>> \o [k \in 1..15 |-> 0],
     pressure_altitude |-> [k \in 1..12 |-> 1],
     horizontal_velocity |-> [k \in 1..12 |-> 1],
     vertical_velocity |-> <<1>> \o [k \in 1..11 |-> 0],
     time_of_reception |-> [k \in 1..24 |-> 1],
     device_serial_number |-> [k \in 1..64 |-> 1],
     vertical_figure_of_merit |-> [k \in 1..15 |-> 1],
     roll |-> <<0>> \o [k \in 1..15 |-> 1],
     pitch |-> <<0>> \o [k \in 1..15 |-> 1],
     heading |-> [k \in 1..16 |-> 1],
     indicated_airspeed |-> [k \in 1..16 |-> 1],
     true_airspeed |-> [k \in 1..16 |-> 1]]

\* the record holds no value for its field
FieldAbsent(self) ==
    \/ ~FieldValue(self).some
    \/ self.field = "heading" /\ ~self.is_magnetic_heading.some

\* the record's value lies in the documented range of its field: signed 16
\* bits, [-1000, 101350] ft, [0, 4094] kt, +-32576 fpm, [0, 10^8] ns, 64 bits,
\* [0, 32766] m, +-180 and +-360 degrees (in tenths), signed 16 bits
FieldInRange(self) ==
    LET v == self.value IN
    CASE self.field = "height_above_terrain" -> v.v \in -32768..32767
      [] self.field = "pressure_altitude" -> v.v \in -1000..101350
      [] self.field = "horizontal_velocity" -> v.v \in 0..4094
      [] self.field = "vertical_velocity" -> v.v \in -32576..32576
      [] self.field = "time_of_reception" -> v.v \in 0..100000000
      [] self.field = "device_serial_number" ->
            \A k \in 1..(Len(self.digits.v) - 64) : self.digits.v[k] = 0
      [] self.field = "vertical_figure_of_merit" -> v.v \in 0..32766
      [] self.field \in {"roll", "pitch"} -> v.v \in -1800..1800
      [] self.field = "heading" -> v.v \in -3600..3600
      [] self.field \in {"indicated_airspeed", "true_airspeed"} -> v.v \in -32768..32767

\* the decoder's outcome for the field is "absent"
DecodedAbsent(field, outcome) ==
    IF field = "heading" THEN outcome = Return(<<None, None>>) ELSE outcome = Return(None)

\* C12: for every optional numeric field and every present value inside the
\* field's range, the bits the encoder writes are not the field's sentinel,
\* and the decoder does not read them as absent
C12_NoSentinelForValue ==
    (/\ pc \in {"encoded", "decoded"}
     /\ rec.field \in OptionalFields
     /\ ~FieldAbsent(rec)
     /\ FieldInRange(rec)) =>
        /\ body # SentinelBits[rec.field]
        /\ pc = "decoded" => ~DecodedAbsent(rec.field, result)

\* C13: serializing a record whose optional field is None writes exactly the
\* documented sentinel of the field, and whatever the field carries it
\* occupies its declared width
C13_SentinelFaithfulness ==
    (pc \in {"encoded", "decoded"} /\ rec.field \in OptionalFields) =>
        /\ Len(body) = Len(SentinelBits[rec.field])
        /\ FieldAbsent(rec) => body = SentinelBits[rec.field]

\* a vertical velocity of None is written as 0x800
C13_Witness ==
    /\ pc = "encoded"
    /\ rec.field = "vertical_velocity"
    /\ rec.value = None
    /\ uint(body) = 2048 /\ Len(body) = 12

\* the clamping fields and their maxima: the generic encoders in default mode
\* (2^w - 1 and 2^(w-1) - 1), 101350 ft, 4094 kt, 32576 fpm, 32766 m
ClampMax(self) ==
    CASE self.field = "uint" -> Pow2(self.bits) - 1
      [] self.field = "int" -> Pow2(self.bits - 1) - 1
      [] self.field = "pressure_altitude" -> 101350
      [] self.field = "horizontal_velocity" -> 4094
      [] self.field = "vertical_velocity" -> 32576
      [] self.field = "vertical_figure_of_merit" -> 32766

\* a value above the maximum of a clamping field has been encoded
AboveClampMax(self) ==
    /\ self.field \in {"uint", "int", "pressure_altitude", "horizontal_velocity",
                        "vertical_velocity", "vertical_figure_of_merit"}
    /\ IF self.field \in {"uint", "int"}
       THEN self.constrain /\ self.value > ClampMax(self)
       ELSE self.value.some /\ self.value.v > ClampMax(self)

\* the bits the field's encoder writes for the value v
EncodedValue(self, v) ==
    serialize_field([self EXCEPT !.value = IF self.field \in {"uint", "int"} THEN v ELSE Some(v)]).val

\* C14 as stated: in every clamping field a value above the maximum is written
\* as the maximum itself is
C14_Original ==
    (pc = "encoded" /\ AboveClampMax(rec)) => body = EncodedValue(rec, ClampMax(rec))

\* C14 amended: in every clamping field a value above the maximum is written
\* as one pattern that does not depend on the value: that of the maximum
\* itself, except for vertical_velocity, where it is that of 32640 fpm (raw
\* 510, "above 32576"), one step above the pattern of 32576 fpm (raw 509)
C14_ClampMonotonicity ==
    (pc = "encoded" /\ AboveClampMax(rec)) =>
        IF rec.field = "vertical_velocity"
        THEN /\ body = BitArrayUint(510, 12)
             /\ EncodedValue(rec, ClampMax(rec)) = BitArrayUint(509, 12)
        ELSE body = EncodedValue(rec, ClampMax(rec))

\* 40000 fpm is written as raw 510
C14_Witness ==
    /\ pc = "encoded"
    /\ rec.field = "vertical_velocity"
    /\ rec.value = Some(40000)
    /\ uint(body) = 510

(***************************************************************************)
(* Reference definitions the Heartbeat claims are stated against           *)
(***************************************************************************)
\* timestamp 00:00:01, both counts 0, every boolean false but UAT_initialized
HeartbeatOneSecond ==
    [type |-> "HeartbeatMessage",
     gps_position_valid |-> FALSE, maintenance_required |-> FALSE,
     ident_talkback |-> FALSE, self_assigned_address_talkback |-> FALSE,
     gps_battery_low |-> FALSE, RATCS_talkback |-> FALSE,
     UAT_initialized |-> TRUE, CSA_requested |-> FALSE,
     CSA_unavailable |-> FALSE, UTC_timing_valid |-> FALSE,
     timestamp |-> Time(0, 0, 1),
     uplink_messages_count |-> 0, basic_long_messages_count |-> 0]

\* C15 as stated: that Heartbeat, serialized with outgoing_lsb = false, is a
\* 9-byte frame that starts with 7E 00 01, ends with 7E, and carries the
\* CRC-16-CCITT of 00 followed by the body, low byte first
C15_Original ==
    (pc = "built" /\ rec = HeartbeatOneSecond /\ ~outgoing_lsb) =>
        LET crc == CcittCrc(SubSeq(data, 2, Len(data) - 3))
        IN  /\ Len(data) = 9
            /\ SubSeq(data, 1, 3) = <<126, 0, 1>>
            /\ data[Len(data)] = 126
            /\ SubSeq(data, Len(data) - 2, Len(data) - 1) = <<crc % 256, crc \div 256>>

\* C15 amended: that Heartbeat, serialized with outgoing_lsb = false, is the
\* 11-byte frame 7E 00 01 00 01 00 00 00 85 45 7E: the flag, the ID 00, the
\* six body bytes, the GDL 90 frame check sequence of 00 followed by the body
\* (low byte first), and the flag
C15_HeartbeatFrame ==
    (pc = "built" /\ rec = HeartbeatOneSecond /\ ~outgoing_lsb) =>
        LET crc == PolyRemainder(BitArrayBytes(<<0, 1, 0, 1, 0, 0, 0>>), 0)
        IN  /\ Len(data) = 11
            /\ data = <<126, 0, 1, 0, 1, 0, 0, 0, 133, 69, 126>>
            /\ SubSeq(data, 9, 10) = <<crc % 256, crc \div 256>>

C15_Witness ==
    /\ pc = "built" /\ rec = HeartbeatOneSecond /\ ~outgoing_lsb
    /\ Len(data) = 11
    /\ data[4] = 0 /\ data[5] = 1

(***************************************************************************)
(* Reference definitions the error claims are stated against               *)
(***************************************************************************)
\* the documented error kinds, under the names of gdl90py/exceptions.py
TaggedErrors ==
    {"MissingFlagBytes", "InvalidCRC", "UnkownMessageID", "InvalidMessageID", "DataTooLong",
     "InvalidCallsign", "UnexpectedNegative", "BadIntegerSize", "UplinkDataWrongSize"}

\* C16: whatever bytes parse_message or parse_messages is given, in either bit
\* order, the call returns or fails with one of the documented error kinds
C16_AllErrorsTagged ==
    pc \in {"parsed_one", "parsed_all"} => (Returned(result) \/ result.exc \in TaggedErrors)

\* C17: deserialize leaves its argument unchanged, so that decoding the same
\* input twice gives the same outcome both times; stated here for an argument
\* that is an already-extracted body BitArray
C17_DecodePure ==
    /\ pc \in {"decoded_bits", "decoded_twice"} => body = ItemBody(rec[1])
    /\ pc = "decoded_twice" => result = deserialize_data(decoder, ItemBody(rec[1]))

\* the position of the latitude span in the body: after traffic_alert,
\* address_type and address
LATITUDE_OFFSET == TRAFFIC_ALERT_BITS + ADDRESS_TYPE_BITS + ADDRESS_BITS

\* C18: when integrity is unknown, the latitude and longitude spans of a
\* serialized Traffic Report or Ownship Report are all zero whatever latitude
\* and longitude the record holds, and both decode to 0
C18_UnknownIntegrityZeroPosition ==
    (rec.type \in {"OwnshipReportMessage", "TrafficReportMessage"}
        /\ rec.integrity = Integrity_unknown) =>
        /\ pc \in {"built", "done"} =>
              \A d \in {deconstruct(data, ~outgoing_lsb)} :
                 /\ Returned(d)
                 /\ \A k \in 1..(LATITUDE_BITS + LONGITUDE_BITS) :
                       d.val[2][LATITUDE_OFFSET + k] = 0
        /\ pc = "done" =>
              /\ Returned(result)
              /\ result.val.latitude = 0
              /\ result.val.longitude = 0

C18_Witness ==
    /\ pc = "done"
    /\ rec.type = "TrafficReportMessage"
    /\ rec.integrity = Integrity_unknown
    /\ rec.latitude = 47 * LATLON_UNITS_PER_DEGREE
    /\ rec.longitude = 2 * LATLON_UNITS_PER_DEGREE
    /\ Returned(result)
    /\ result.val.latitude = 0

\* the characters a callsign span may hold besides the padding
CallsignCharacters == (48..57) \cup (65..90)

\* the position of the callsign span in the body, counted in bytes
CALLSIGN_OFFSET ==
    (LATITUDE_OFFSET + LATITUDE_BITS + LONGITUDE_BITS + PRESSURE_ALTITUDE_BITS + 1 + 1
        + TRACK_TYPE_BITS + INTEGRITY_BITS + ACCURACY_BITS + HORIZONTAL_VELOCITY_BITS
        + VERTICAL_VELOCITY_BITS + TRACK_BITS + EMITTER_CATEGORY_BITS) \div 8

\* C19: a serialized Traffic Report or Ownship Report has a callsign span of 8
\* bytes, upper-case ASCII letters or digits followed by spaces only (all
\* spaces for a None or blank callsign); a callsign that, trimmed and upper
\* cased, contains another character makes serialize raise InvalidCallsign
C19_CallsignSpan ==
    rec.type \in {"OwnshipReportMessage", "TrafficReportMessage"} =>
        LET given == IF rec.callsign.some THEN upper(strip(rec.callsign.v)) ELSE <<>>
        IN  /\ pc \in {"built", "done"} =>
                  \A d \in {deconstruct(data, ~outgoing_lsb)} :
                     /\ Returned(d)
                     /\ \A span \in {SubSeq(tobytes(d.val[2]), CALLSIGN_OFFSET + 1,
                                             CALLSIGN_OFFSET + CALLSIGN_BITS \div 8)} :
                           /\ Len(span) = 8
                           /\ \A k \in 1..8 : span[k] \in CallsignCharacters \cup {SPACE}
                           /\ \A k \in 1..7 : span[k] = SPACE => span[k + 1] = SPACE
                           /\ Len(given) = 0 => \A k \in 1..8 : span[k] = SPACE
            /\ (\E k \in 1..Len(given) : given[k] \notin CallsignCharacters) =>
                  \/ pc = "start"
                  \/ pc = "failed" /\ result = Raise("InvalidCallsign")

\* the frames sent since the current cycle of the connection began
CycleFrames == SubSeq(frames, server.cycle_start + 1, Len(frames))

\* the IDs of a frame the broadcaster sent
FrameIds(frame) == deconstruct(frame, TRUE).val[1]

\* C20: on every accepted connection each cycle sends one Heartbeat frame
\* first and then one Traffic Report frame per fetched row, in row order, and
\* the cycles go on until the connection fails
C20_BroadcastCycle ==
    /\ (pc \in {"execute", "acft"} \/ (pc = "heartbeat" /\ server.cycles > 0)) =>
          /\ Len(CycleFrames) >= 1
          /\ FrameIds(CycleFrames[1]) = MESSAGE_IDS["HeartbeatMessage"]
          /\ \A k \in 2..Len(CycleFrames) :
                /\ k - 1 <= Len(rec)
                /\ Return(hexlify(CycleFrames[k])) = getTrafficReportMessage(rec[k - 1])
    /\ (pc = "heartbeat" /\ server.cycles > 0) => Len(CycleFrames) = 1 + Len(rec)
    /\ (server.accepted > 0 /\ pc \in {"accept", "exited"}) => result = Raise("ConnectionError")

\* C21: unescape(escape(B)) = B for every byte string B, also when B holds
\* consecutive 0x7D / 0x7E bytes or the bytes 0x5D and 0x5E
C21_EscapeUnescapeInverse ==
    pc = "unescaped" => result = Return(tobytes(body))

C21_Witness ==
    /\ pc = "unescaped"
    /\ tobytes(body) = <<CONTROL_ESCAPE_BYTE, FLAG_BYTE>>
    /\ data = <<CONTROL_ESCAPE_BYTE, 93, CONTROL_ESCAPE_BYTE, 94>>
    /\ result = Return(<<CONTROL_ESCAPE_BYTE, FLAG_BYTE>>)

\* the signed scaled fields, their resolutions (latitude and longitude in
\* units of 2^-21 degree, where 180 / 2^23 degree is 45) and their widths
SignedScaledFields ==
    [geo_altitude |-> <<5, 16>>, vertical_velocity |-> <<64, 12>>,
     latitude |-> <<45, 24>>, longitude |-> <<45, 24>>]

\* floor(value / res) clamped to the signed range of the width, as a bit pattern
FloorScaled(value, res, width) ==
    LET floor == value \div res
        clamped == IF floor > Pow2(width - 1) - 1 THEN Pow2(width - 1) - 1
                   ELSE IF floor < 0 - Pow2(width - 1) THEN 0 - Pow2(width - 1)
                   ELSE floor
    IN  BitArrayUint(clamped % Pow2(width), width)

\* C22: a signed scaled field (geo_altitude, vertical_velocity inside its
\* range of +-32576 fpm, latitude, longitude) is written as floor(value / res)
\* clamped to the signed range of its width, for negative values too
C22_ScaledSignedFloor ==
    (/\ pc = "encoded"
     /\ rec.field \in DOMAIN SignedScaledFields
     /\ rec.value.some
     /\ rec.field = "vertical_velocity" => rec.value.v \in -32576..32576) =>
        body = FloorScaled(rec.value.v, SignedScaledFields[rec.field][1],
                           SignedScaledFields[rec.field][2])

\* the 24-bit unsigned value of the three time-of-reception bytes of a body,
\* low byte first
WireTimeOfReception(bytes_) == bytes_[1] + 256 * bytes_[2] + 65536 * bytes_[3]

\* C23: a UAT report (IDs 7, 30, 31) decodes its time of reception as 80 times
\* the unsigned 24-bit value of the three bytes read low byte first, so never
\* as a negative time, and as absent exactly for 0xFFFFFF
C23_TimeOfReceptionUnsigned ==
    (/\ pc = "parsed_one"
     /\ tamper = "none"
     /\ rec[1] \in UatWireItems) =>
        /\ Returned(result)
        /\ result.val.time_of_reception =
              IF WireTimeOfReception(rec[1].body) = 16777215 THEN None
              ELSE Some(80 * WireTimeOfReception(rec[1].body))

\* C24: a CRC-valid frame whose body is shorter than the fixed body size of its
\* message type does not decode: deserializing it fails and returns no record
C24_ShortBodyFails ==
    (/\ pc = "parsed_one"
     /\ tamper = "none"
     /\ rec[1] \in ShortItems) => Raised(result)

\* C25: a CRC-valid frame whose body is a valid body of its fixed-layout type
\* followed by extra bytes fails with DataTooLong, through parse_message and
\* through the deserialize of its own type
C25_DataTooLong ==
    (/\ tamper = "none"
     /\ rec[1] \in LongItems
     /\ \/ pc = "parsed_one"
        \/ pc = "decoded_as" /\ MESSAGE_IDS[decoder] = rec[1].ids)
        => result = Raise("DataTooLong")

C25_Witness ==
    /\ pc = "parsed_one"
    /\ tamper = "none"
    /\ rec[1] = LongItem(SampleHeartbeat, <<0>>)
    /\ Len(rec[1].body) = 7
    /\ result = Raise("DataTooLong")

\* the seconds since midnight of a time of day
SecondsOfDay(time) == time.hour * 3600 + time.minute * 60 + time.second

Bit(b) == IF b THEN 1 ELSE 0

\* C26: the body of a serialized Heartbeat (the body bytes its frame carries,
\* in MSB-first bit order) is exactly 6 bytes; bit 16 of the
\* timestamp t is the most significant bit of body byte 2, whose other bits are
\* CSA_requested, CSA_unavailable, four zeros and UTC_timing_valid; body byte 3
\* is t mod 256 and body byte 4 is bits 8..15 of t
C26_TimestampScatter ==
    (pc = "built" /\ rec.type = "HeartbeatMessage") =>
        LET t == SecondsOfDay(rec.timestamp)
        IN  \A d \in {deconstruct(data, ~outgoing_lsb)} : \A b \in {tobytes(d.val[2])} :
               /\ Len(b) = 6
               /\ b[2] = 128 * (t \div 65536) + 64 * Bit(rec.CSA_requested)
                            + 32 * Bit(rec.CSA_unavailable) + Bit(rec.UTC_timing_valid)
               /\ b[3] = t % 256
               /\ b[4] = (t \div 256) % 256

C26_Witness ==
    /\ pc = "built"
    /\ rec.timestamp = Time(23, 59, 59)
    /\ rec.CSA_requested /\ ~rec.CSA_unavailable /\ rec.UTC_timing_valid
    /\ \E d \in {deconstruct(data, ~outgoing_lsb)} : SubSeq(tobytes(d.val[2]), 2, 4) = <<193, 127, 81>>

\* what the unsigned encoder is to do with value v, width w and mode constrain:
\* the state after the call is a failure with the named error and no bits, or
\* w bits holding the number
UnsignedPolicy(v, w, constrain) ==
    IF v < 0 THEN pc = "failed" /\ result = Raise("UnexpectedNegative") /\ body = <<>>
    ELSE IF v <= 2 ^ w - 1 THEN pc # "failed" /\ Len(body) = w /\ uint(body) = v
    ELSE IF constrain THEN pc # "failed" /\ Len(body) = w /\ uint(body) = 2 ^ w - 1
    ELSE pc = "failed" /\ result = Raise("BadIntegerSize") /\ body = <<>>

\* C27: the unsigned encoder fails with UnexpectedNegative for a negative
\* value in both modes, writes a value that fits, and for a value above
\* 2^w - 1 writes 2^w - 1 when clamping and fails with BadIntegerSize when
\* strict, as it is for the 24-bit address and the 64-bit serial number; a
\* failure leaves no bits
C27_UnsignedPolicy ==
    /\ (pc # "field" /\ rec.field = "uint") =>
          UnsignedPolicy(rec.value, rec.bits, rec.constrain)
    /\ (pc # "field" /\ rec.field = "address") =>
          UnsignedPolicy(rec.value.v, 24, FALSE)
    /\ (pc # "field" /\ rec.field = "device_serial_number" /\ rec.digits.some) =>
          IF Len(rec.digits.v) > 64
          THEN pc = "failed" /\ result = Raise("BadIntegerSize") /\ body = <<>>
          ELSE /\ pc # "failed"
               /\ Len(body) = 64
               /\ SubSeq(body, 65 - Len(rec.digits.v), 64) = rec.digits.v
               /\ \A k \in 1..(64 - Len(rec.digits.v)) : body[k] = 0

C27_Witness ==
    /\ pc = "failed"
    /\ rec = Generic("uint", 256, 8, FALSE)
    /\ result = Raise("BadIntegerSize")
    /\ body = <<>>

\* the fields stored at a resolution coarser than their value's unit
LossyFields ==
    {"latitude", "longitude", "pressure_altitude", "vertical_velocity", "track", "geo_altitude",
     "roll", "pitch", "heading", "time_of_reception"}

\* TRUE when the bits in body are not the field's sentinel: the decoder
\* returned a value
DecodedValue ==
    CASE rec.field \in DOMAIN SampleRequiredFieldValues -> TRUE
      [] rec.field = "heading" -> result.val[2].some
      [] OTHER -> result.val.some

\* C28: for every lossy-scaled field and every non-sentinel bit pattern its
\* encoder produces, encoding the decoded value again yields the same bits
C28_QuantizationStable ==
    (/\ pc \in {"reencoded", "refailed"}
     /\ rec.field \in LossyFields
     /\ DecodedValue) => (pc = "reencoded" /\ data = body)

\* C29: when a connection has ended with a connection error the server is
\* accepting again with its database cursor still open, and no later
\* connection ends because the cursor is closed
C29_KeepsServing ==
    /\ (pc = "accept" /\ result = Raise("ConnectionError")) => ~server.cur_closed
    /\ result # Raise("InterfaceError")

\* C30: parse_message(r.serialize()), with the bit-order arguments of both
\* calls at their defaults, returns a record for every record r of a
\* registered type: the record that quantizing r gives, which is what the
\* frame decodes to when the bit orders of the two calls match
C30_DefaultsAgree ==
    (/\ pc = "parsed_defaults"
     /\ tamper = "none"
     /\ rec[1] \in ValidItems) =>
        /\ Returned(result)
        /\ result = parse_message(data, ~outgoing_lsb, FALSE)

====
